---- MODULE Spec2Model ----
(***************************************************************************)
(* A model of scripts/snapshot_manager.py (SkillSnapshotManager).          *)
(*                                                                         *)
(* The specifications of this module share its variables:                  *)
(*   Spec / FairSpec  the lock file protocol (_acquire_lock,               *)
(*                    _release_lock) as run by concurrent invocations of   *)
(*                    save, restore, delete_snapshot and backup_all, each  *)
(*                    file system call one step;                           *)
(*   RestoreSpec      _restore_impl: backup, copy, rollback, cleanup;      *)
(*   VersionSpec      _save_impl and _delete_snapshot_impl on the tag set  *)
(*                    of the snapshot repository;                          *)
(*   AllocatorSpec    _save_impl alone, started from every set of seed     *)
(*                    tags;                                                *)
(*   CommandSpec      the commands as main() dispatches them, one after    *)
(*                    the other;                                           *)
(*   InterleavedSpec  _save_impl in two steps, with the user editing the   *)
(*                    live tree and _has_changes_fast called in between;   *)
(*   CompareSpec      _compare_dirs on every pair of small directories;    *)
(*   LatestSpec       the version diff takes by default, for every set of  *)
(*                    tags;                                                *)
(*   DetectSpec       _has_changes_fast for every small skill and cache.   *)
(* Each specification leaves the variables of the others unchanged.        *)
(***************************************************************************)
EXTENDS Integers, Sequences, FiniteSets, TLC

VARIABLES
    clock,      \* time.time(), in seconds
    lock,       \* the file local_repo/.snapshot.lock (NoLock: no such file)
    pc,         \* per invocation: the call it is about to make
    cmd,        \* per invocation: the command it runs
    inner,      \* per invocation: inside the save() that backup_all calls
    pending,    \* per invocation: trees backup_all has still to save
    acq,        \* per invocation: what its last _acquire_lock() returned
    held,       \* per invocation: between its acquire and its own release
    exitKind,   \* per invocation: how the command left its try block
    nrel        \* per invocation: the _release_lock() calls it has made

lockVars ==
    <<clock, lock, pc, cmd, inner, pending, acq, held, exitKind, nrel>>

\* RestoreSpec: one restore(skill_name, version)
VARIABLES
    rpc,        \* the statement of _restore_impl that runs next
    dest,       \* the directory skills_dir/skill_name (the live tree)
    backup,     \* the directory backup_path
    source,     \* the directory local_repo/skill_name
    snap,       \* the tree recorded under the tag (NoDir: the tag has none)
    tagExists,  \* whether git rev-parse finds the tag
    branch,     \* what the snapshot repository has checked out
    backup_path,\* whether backup_path is set (not None)
    todo,       \* the files copytree has still to copy
    errors,     \* whether copytree has collected an error
    rout,       \* how restore ended
    orig,       \* the live tree before the restore
    mainTree,   \* the tree of the skill on the default branch
    copyFailed, \* the copy step raised
    cleanupFailed \* the removal of the backup raised

restoreVars ==
    <<rpc, dest, backup, source, snap, tagExists, branch, backup_path, todo,
      errors, rout, orig, mainTree, copyFailed, cleanupFailed>>

\* VersionSpec: save and delete_snapshot, one after the other
VARIABLES
    tags,       \* the tags of the snapshot repository (names)
    remote,     \* the tags of the remote repository
    live,       \* per skill: the live tree (content and mtime/size stamp)
    index,      \* per skill: the tree staged in the snapshot repository
    head,       \* per skill: the tree of the last commit on main
    cache,      \* per skill: the hash cache file (hash and stamp)
    last,       \* the outcome of the last command
    lastCreated,\* per skill: the version of its last save that created one
    topDeleted, \* per skill: its highest tag was deleted since that save
    retired,    \* per skill: the numbers of the tags that were deleted
    nedits,     \* the changes made to the live trees
    batch       \* the backup_all under way: the skills it has still to save

versionVars ==
    <<tags, remote, live, index, head, cache, last, lastCreated, topDeleted,
      retired, nedits, batch>>

\* InterleavedSpec: a save whose steps other processes can come between
VARIABLES
    midsave,    \* the save that has staged its copy and not yet committed
    git_dir     \* (self.local_repo / ".git").exists()

stepVars == <<midsave, git_dir>>

\* CompareSpec: diff and _compare_dirs
VARIABLES
    dir1,       \* the files of the snapshot directory, each with its content
    dir2,       \* the files of the local directory, each with its content
    report,     \* the lines _compare_dirs has printed, in order
    has_diff,   \* the has_diff flag of _compare_dirs
    compared    \* _compare_dirs has run

diffVars == <<dir1, dir2, report, has_diff, compared>>

\* LatestSpec and DetectSpec: diff's choice of a version and
\* _has_changes_fast on the files of a skill
VARIABLES
    latest,           \* the skill diff was called for and the tag it chose
    answer,           \* what the last call of _has_changes_fast gave
    snapshot_exists,  \* snapshot_path.exists()
    cache_file,       \* what _load_cache returns for the skill
    skill_files       \* the files of skill_path, each with its hash and stat

probeVars == <<latest, answer, snapshot_exists, cache_file, skill_files>>

\* IgnoreSpec and DiffSpec: the files that the three enumerations of a tree
\* give, and diff(skill_name, version) step by step
VARIABLES
    skill_path,   \* the parts of skills_dir / skill_name (the names of the
                  \* directories down to the tree, the tree's own name last)
    enumerated,   \* the files fingerprinted, staged and diffed of the tree
    dpc,          \* the statement of diff that runs next
    temp_dir      \* whether the directory of tempfile.TemporaryDirectory exists

toolVars == <<skill_path, enumerated, dpc, temp_dir>>

vars == <<lockVars, restoreVars, versionVars, stepVars, diffVars, probeVars, toolVars>>

LockOnly == UNCHANGED <<restoreVars, versionVars, stepVars, diffVars, probeVars, toolVars>>
RestoreOnly == UNCHANGED <<lockVars, versionVars, stepVars, diffVars, probeVars, toolVars>>
VersionOnly == UNCHANGED <<lockVars, restoreVars, stepVars, diffVars, probeVars, toolVars>>
DiffOnly == UNCHANGED <<lockVars, restoreVars, versionVars, stepVars, probeVars, toolVars>>
ProbeOnly == UNCHANGED <<lockVars, restoreVars, versionVars, stepVars, diffVars, toolVars>>
ToolOnly == UNCHANGED <<lockVars, restoreVars, versionVars, stepVars, diffVars, probeVars>>

(***************************************************************************)
(* Bounds of the model.                                                    *)
(***************************************************************************)
TickSeconds == 100      \* the clock advances in steps of this many seconds
MaxTicks == 7           \* the clock stops after this many steps
MaxBatch == 1           \* backup_all finds at most this many changed trees

(***************************************************************************)
(* The lock file.                                                          *)
(***************************************************************************)
StaleAge == 600         \* lock_age > 600

Procs == {"p1", "p2"}   \* os.getpid() of the running invocations
DeadPid == "p0"         \* an invocation that was killed holding the lock
Cmds == {"save", "restore", "delete_snapshot", "backup_all"}

NoLock == [holder |-> "none", mtime |-> 0]
\* A record that does not name the invocation that wrote it.
LockRecordUnowned(p, now) == [holder |-> "p0", mtime |-> now]
\* f"{os.getpid()}\n{datetime.now().isoformat()}", and the file's mtime
LockRecord(p, now) == [holder |-> p, mtime |-> now]
LockExists == lock # NoLock

\* lock_age = time.time() - lock_path.stat().st_mtime
lock_age == clock - lock.mtime

\* A threshold that already counts 600 seconds as stale.
IsStaleGE(age) == age >= StaleAge
\* if lock_age > 600
IsStale(age) == age > StaleAge

(***************************************************************************)
(* How a command leaves its try block: by returning, by an exception       *)
(* (SnapshotError, SkillNotFoundError, NetworkError, a copy failure), or   *)
(* by sys.exit(1) (a backend command that timed out, no network, a tag     *)
(* that does not exist).                                                   *)
(***************************************************************************)
ExitKinds(c) ==
    CASE c = "save"            -> {"return", "raise", "exit"}
      [] c = "restore"         -> {"return", "raise", "exit"}
      [] c = "delete_snapshot" -> {"return", "exit"}
      [] c = "backup_all"      -> {"return", "exit"}

\* The command that is running the current try block: backup_all runs save.
Running(p) == IF inner[p] THEN "save" ELSE cmd[p]

(***************************************************************************)
(* An invocation starts: main() dispatches one command.  backup_all will   *)
(* find n changed trees.                                                   *)
(***************************************************************************)
Start(p, c, n) ==
    /\ pc[p] = "idle"
    /\ LockOnly
    /\ (c # "backup_all" => n = 0)
    /\ cmd' = [cmd EXCEPT ![p] = c]
    /\ pc' = [pc EXCEPT ![p] = "acq_exists"]
    /\ inner' = [inner EXCEPT ![p] = FALSE]
    /\ pending' = [pending EXCEPT ![p] = n]
    /\ acq' = [acq EXCEPT ![p] = "none"]
    /\ exitKind' = [exitKind EXCEPT ![p] = "none"]
    /\ nrel' = [nrel EXCEPT ![p] = 0]
    /\ UNCHANGED <<clock, lock, held>>

(***************************************************************************)
(* _acquire_lock returns ok to its caller.                                 *)
(*   save:            if not self._acquire_lock(): raise SnapshotError     *)
(*   restore, delete_snapshot, backup_all: ... sys.exit(1)                 *)
(*   save inside backup_all: the SnapshotError is caught by backup_all's   *)
(*   loop, which goes on with the next tree.                               *)
(***************************************************************************)
AcquireReturns(p, ok) ==
    /\ acq' = [acq EXCEPT ![p] = IF ok THEN "true" ELSE "false"]
    /\ IF ok
       THEN /\ pc' = [pc EXCEPT ![p] = "body"]
            /\ held' = [held EXCEPT ![p] = TRUE]
            /\ UNCHANGED <<inner, pending, exitKind>>
       ELSE IF inner[p]
            THEN /\ pc' = [pc EXCEPT ![p] = "body"]
                 /\ inner' = [inner EXCEPT ![p] = FALSE]
                 /\ pending' = [pending EXCEPT ![p] = pending[p] - 1]
                 /\ UNCHANGED <<held, exitKind>>
            ELSE /\ pc' = [pc EXCEPT ![p] = "idle"]
                 /\ exitKind' = [exitKind EXCEPT ![p] =
                                   IF cmd[p] = "save" THEN "raise" ELSE "exit"]
                 /\ UNCHANGED <<held, inner, pending>>

\* if lock_path.exists():
_acquire_lock_exists(p) ==
    /\ pc[p] = "acq_exists"
    /\ LockOnly
    /\ pc' = [pc EXCEPT ![p] = IF LockExists THEN "acq_stat" ELSE "acq_write"]
    /\ UNCHANGED <<clock, lock, cmd, inner, pending, acq, held, exitKind, nrel>>

\* lock_age = time.time() - lock_path.stat().st_mtime; if lock_age > 600: ...
\* else: return False.  stat() of a file that is gone raises OSError, which
\* the except clause turns into return False.
_acquire_lock_stat(p) ==
    /\ pc[p] = "acq_stat"
    /\ LockOnly
    /\ UNCHANGED <<clock, lock, cmd, nrel>>
    /\ IF LockExists /\ IsStale(lock_age)
       THEN /\ pc' = [pc EXCEPT ![p] = "acq_unlink"]
            /\ UNCHANGED <<inner, pending, acq, held, exitKind>>
       ELSE AcquireReturns(p, FALSE)

\* lock_path.unlink()  # Remove stale lock.  unlink() of a file that is gone
\* raises OSError: return False.
_acquire_lock_unlink(p) ==
    /\ pc[p] = "acq_unlink"
    /\ LockOnly
    /\ UNCHANGED <<clock, cmd, nrel>>
    /\ IF LockExists
       THEN /\ lock' = NoLock
            /\ pc' = [pc EXCEPT ![p] = "acq_write"]
            /\ UNCHANGED <<inner, pending, acq, held, exitKind>>
       ELSE /\ UNCHANGED lock
            /\ AcquireReturns(p, FALSE)

\* lock_path.write_text(f"{os.getpid()}\n{datetime.now().isoformat()}");
\* return True.  write_text creates the file or overwrites the one present.
_acquire_lock_write(p) ==
    /\ pc[p] = "acq_write"
    /\ LockOnly
    /\ lock' = LockRecord(p, clock)
    /\ UNCHANGED <<clock, cmd, nrel>>
    /\ AcquireReturns(p, TRUE)

(***************************************************************************)
(* The try block of a command ends with kind k; the finally clause calls   *)
(* _release_lock.                                                          *)
(***************************************************************************)
\* A command whose sys.exit(1) ends the process without the finally clause.
FinallySkipsExit(p, k) ==
    /\ exitKind' = [exitKind EXCEPT ![p] = k]
    /\ IF k = "exit"
       THEN /\ pc' = [pc EXCEPT ![p] = "idle"]
            /\ held' = [held EXCEPT ![p] = FALSE]
            /\ inner' = [inner EXCEPT ![p] = FALSE]
       ELSE /\ pc' = [pc EXCEPT ![p] = "rel_exists"]
            /\ UNCHANGED <<held, inner>>

\* try: ... finally: self._release_lock()
Finally(p, k) ==
    /\ exitKind' = [exitKind EXCEPT ![p] = k]
    /\ pc' = [pc EXCEPT ![p] = "rel_exists"]
    /\ UNCHANGED <<held, inner>>

\* The command's body runs to its end and returns.  backup_all returns when
\* no tree is left to save.
BodyReturn(p) ==
    /\ pc[p] = "body"
    /\ LockOnly
    /\ (Running(p) = "backup_all" => pending[p] = 0)
    /\ Finally(p, "return")
    /\ UNCHANGED <<clock, lock, cmd, pending, acq, nrel>>

\* The body raises an exception.
BodyRaise(p) ==
    /\ pc[p] = "body"
    /\ LockOnly
    /\ "raise" \in ExitKinds(Running(p))
    /\ Finally(p, "raise")
    /\ UNCHANGED <<clock, lock, cmd, pending, acq, nrel>>

\* The body calls sys.exit(1).
BodyExit(p) ==
    /\ pc[p] = "body"
    /\ LockOnly
    /\ Finally(p, "exit")
    /\ UNCHANGED <<clock, lock, cmd, pending, acq, nrel>>

\* backup_all: created = self.save(skill, message, sync_remote=False,
\* skip_fast_check=True), which starts with its own _acquire_lock().
BatchCallsSave(p) ==
    /\ pc[p] = "body"
    /\ LockOnly
    /\ cmd[p] = "backup_all"
    /\ ~inner[p]
    /\ pending[p] > 0
    /\ inner' = [inner EXCEPT ![p] = TRUE]
    /\ pc' = [pc EXCEPT ![p] = "acq_exists"]
    /\ acq' = [acq EXCEPT ![p] = "none"]
    /\ UNCHANGED <<clock, lock, cmd, pending, held, exitKind, nrel>>

(***************************************************************************)
(* _release_lock returns.  In the save that backup_all called, a return or *)
(* an exception goes back to backup_all's loop (except SnapshotError /     *)
(* except Exception), and sys.exit goes on to backup_all's own finally.    *)
(* Otherwise the invocation is over.                                       *)
(***************************************************************************)
ReleaseReturns(p) ==
    /\ nrel' = [nrel EXCEPT ![p] = nrel[p] + 1]
    /\ IF inner[p]
       THEN /\ inner' = [inner EXCEPT ![p] = FALSE]
            /\ UNCHANGED held
            /\ IF exitKind[p] = "exit"
               THEN /\ pc' = [pc EXCEPT ![p] = "rel_exists"]
                    /\ UNCHANGED <<pending, exitKind>>
               ELSE /\ pc' = [pc EXCEPT ![p] = "body"]
                    /\ pending' = [pending EXCEPT ![p] = pending[p] - 1]
                    /\ exitKind' = [exitKind EXCEPT ![p] = "none"]
       ELSE /\ pc' = [pc EXCEPT ![p] = "idle"]
            /\ held' = [held EXCEPT ![p] = FALSE]
            /\ UNCHANGED <<inner, pending, exitKind>>

\* if lock_path.exists():
_release_lock_exists(p) ==
    /\ pc[p] = "rel_exists"
    /\ LockOnly
    /\ UNCHANGED <<clock, lock, cmd, acq>>
    /\ IF LockExists
       THEN /\ pc' = [pc EXCEPT ![p] = "rel_unlink"]
            /\ UNCHANGED <<inner, pending, held, exitKind, nrel>>
       ELSE ReleaseReturns(p)

\* A release that removes only a record of its own invocation.
UnlinkOwnOnly(l, p) == IF l.holder = p THEN NoLock ELSE l
\* lock_path.unlink(): the file is gone afterwards, whoever wrote it (and if
\* it was gone already, the OSError is passed over).
Unlink(l, p) == NoLock

_release_lock_unlink(p) ==
    /\ pc[p] = "rel_unlink"
    /\ LockOnly
    /\ lock' = Unlink(lock, p)
    /\ UNCHANGED <<clock, cmd, acq>>
    /\ ReleaseReturns(p)

\* Time passes.
Tick ==
    /\ clock + TickSeconds <= MaxTicks * TickSeconds
    /\ LockOnly
    /\ clock' = clock + TickSeconds
    /\ UNCHANGED <<lock, pc, cmd, inner, pending, acq, held, exitKind, nrel>>

Step(p) ==
    \/ _acquire_lock_exists(p)
    \/ _acquire_lock_stat(p)
    \/ _acquire_lock_unlink(p)
    \/ _acquire_lock_write(p)
    \/ BodyReturn(p)
    \/ BodyRaise(p)
    \/ BodyExit(p)
    \/ BatchCallsSave(p)
    \/ _release_lock_exists(p)
    \/ _release_lock_unlink(p)

(***************************************************************************)
(* Directories.  A directory is the set of its files, each a pair of its   *)
(* path below the directory and its content; content 0 is a file that was  *)
(* only partly written.                                                    *)
(***************************************************************************)
MaxContent == 2         \* file contents are 1..MaxContent

Files == {"SKILL.md", "a.py"}
Contents == 1..MaxContent

NoDir == [exists |-> FALSE, files |-> {}]
Dir(fs) == [exists |-> TRUE, files |-> fs]
AllDirs ==
    UNION { { Dir({ <<(<<f>>), g[f]>> : f \in S }) : g \in [S -> Contents] } :
            S \in SUBSET Files }

\* shutil.rmtree(path)
rmtree(d) == NoDir

\* What shutil.move(src, dst) leaves at dst: src itself (os.rename) when
\* dst does not exist, and src inside dst, under its own name, when dst is
\* a directory.
move(src, dst) ==
    IF dst.exists
    THEN Dir(dst.files \cup { <<(<<"bak">> \o e[1]), e[2]>> : e \in src.files })
    ELSE src

\* The variables a restore only reads.
rin == <<snap, tagExists, orig, mainTree>>

(***************************************************************************)
(* _restore_impl(skill_name, version)                                      *)
(***************************************************************************)

\* The statement leaves the try block (sys.exit or an exception): the
\* finally clause runs next.
Leave(how) ==
    /\ rout' = how
    /\ rpc' = "finally"

\* if not self.check_network(): ... sys.exit(1)  (before the try block)
RestoreCheckNetwork(up) ==
    /\ rpc = "network"
    /\ RestoreOnly
    /\ IF up
       THEN rpc' = "update" /\ UNCHANGED rout
       ELSE rpc' = "done" /\ rout' = "exit"
    /\ UNCHANGED <<dest, backup, source, branch, backup_path, todo, errors,
                   copyFailed, cleanupFailed, rin>>

\* git checkout main; git pull
RestoreUpdateRepo ==
    /\ rpc = "update"
    /\ RestoreOnly
    /\ branch' = "main"
    /\ source' = mainTree
    /\ rpc' = "revparse"
    /\ UNCHANGED <<dest, backup, backup_path, todo, errors, rout,
                   copyFailed, cleanupFailed, rin>>

\* res_check = git rev-parse full_tag; if res_check.returncode != 0:
\* sys.exit(1).  git rev-parse returns 0 for the name of a tag and also for
\* the name of a path in the working directory (is_path: the version
\* argument is the name of a file or directory that the skill has on the
\* default branch, so that full_tag = "skill/<that name>").
RestoreRevParse(is_path) ==
    /\ rpc = "revparse"
    /\ RestoreOnly
    /\ is_path => mainTree.exists /\ mainTree.files # {}
    /\ IF tagExists \/ is_path
       THEN rpc' = "checkout" /\ UNCHANGED rout
       ELSE Leave("exit")
    /\ UNCHANGED <<dest, backup, source, branch, backup_path, todo, errors,
                   copyFailed, cleanupFailed, rin>>

\* git checkout full_tag.  The return code is not looked at: when the
\* checkout fails (ok = FALSE; changes staged by a save whose commit failed
\* stand in its way, or .git/index.lock is there), the repository stays on
\* the default branch and restore goes on.  For a full_tag that is no tag
\* but a path, the checkout is that of the path from the index: the
\* repository stays on the default branch as well.
RestoreCheckoutTag(ok) ==
    /\ rpc = "checkout"
    /\ RestoreOnly
    /\ branch' = IF ok /\ tagExists THEN "tag" ELSE branch
    /\ source' = IF ok /\ tagExists THEN snap ELSE source
    /\ rpc' = "source"
    /\ UNCHANGED <<dest, backup, backup_path, todo, errors, rout,
                   copyFailed, cleanupFailed, rin>>

\* A backend command runs into its timeout: _run_command calls sys.exit(1).
RestoreTimeout ==
    /\ rpc \in {"update", "revparse", "checkout"}
    /\ RestoreOnly
    /\ Leave("exit")
    /\ UNCHANGED <<dest, backup, source, branch, backup_path, todo, errors,
                   copyFailed, cleanupFailed, rin>>

\* if not source.exists(): ... sys.exit(1)
RestoreCheckSource ==
    /\ rpc = "source"
    /\ RestoreOnly
    /\ IF source.exists
       THEN rpc' = "backup" /\ UNCHANGED rout
       ELSE Leave("exit")
    /\ UNCHANGED <<dest, backup, source, branch, backup_path, todo, errors,
                   copyFailed, cleanupFailed, rin>>

\* if dest.exists(): backup_path = dest.with_suffix(f".bak.{int(time.time())}")
\*     try: shutil.move(str(dest), str(backup_path))
\*     except Exception: ... sys.exit(1)
RestoreBackup(ok) ==
    /\ rpc = "backup"
    /\ RestoreOnly
    /\ IF ~dest.exists
       THEN /\ ok
            /\ rpc' = "makedirs"
            /\ UNCHANGED <<dest, backup, backup_path, rout>>
       ELSE IF ok
            THEN /\ backup' = move(dest, backup)
                 /\ dest' = NoDir
                 /\ backup_path' = TRUE
                 /\ rpc' = "makedirs"
                 /\ UNCHANGED rout
            ELSE /\ backup_path' = TRUE
                 /\ Leave("exit")
                 /\ UNCHANGED <<dest, backup>>
    /\ UNCHANGED <<source, branch, todo, errors, copyFailed, cleanupFailed, rin>>

\* The except clause of the copy step is entered.
CopyRaises ==
    /\ copyFailed' = TRUE
    /\ rpc' = "rollback_rm"

\* shutil.copytree(source, dest, dirs_exist_ok=True): os.makedirs(dest)
CopytreeMakedirs(ok) ==
    /\ rpc = "makedirs"
    /\ RestoreOnly
    /\ IF ok
       THEN /\ dest' = Dir(dest.files)
            /\ todo' = source.files
            /\ rpc' = "copy"
            /\ UNCHANGED copyFailed
       ELSE /\ CopyRaises
            /\ UNCHANGED <<dest, todo>>
    /\ UNCHANGED <<backup, source, branch, backup_path, errors, rout,
                   cleanupFailed, rin>>

\* copytree copies one more file.  A copy that fails is noted in errors and
\* the loop goes on; it leaves no file or a partly written one.
CopytreeCopyFile(e, ok, partial) ==
    /\ rpc = "copy"
    /\ RestoreOnly
    /\ e \in todo
    /\ todo' = todo \ {e}
    /\ IF ok
       THEN /\ ~partial
            /\ dest' = Dir({d \in dest.files : d[1] # e[1]} \cup {e})
            /\ UNCHANGED errors
       ELSE /\ dest' = IF partial
                       THEN Dir({d \in dest.files : d[1] # e[1]} \cup {<<e[1], 0>>})
                       ELSE dest
            /\ errors' = TRUE
    /\ UNCHANGED <<rpc, backup, source, branch, backup_path, rout, copyFailed,
                   cleanupFailed, rin>>

\* copytree: if errors: raise Error(errors)
CopytreeEnd ==
    /\ rpc = "copy"
    /\ RestoreOnly
    /\ todo = {}
    /\ IF errors
       THEN CopyRaises
       ELSE rpc' = "cleanup" /\ UNCHANGED copyFailed
    /\ UNCHANGED <<dest, backup, source, branch, backup_path, todo, errors,
                   rout, cleanupFailed, rin>>

\* A rollback that leaves the partly written destination in place.
RollbackKeepsDest ==
    /\ rpc = "rollback_rm"
    /\ RestoreOnly
    /\ rpc' = "rollback_mv"
    /\ UNCHANGED <<dest, backup, source, branch, backup_path, todo, errors,
                   rout, copyFailed, cleanupFailed, rin>>

\* except Exception as e:  if dest.exists(): shutil.rmtree(dest)
RollbackRmtree ==
    /\ rpc = "rollback_rm"
    /\ RestoreOnly
    /\ dest' = IF dest.exists THEN rmtree(dest) ELSE dest
    /\ rpc' = "rollback_mv"
    /\ UNCHANGED <<backup, source, branch, backup_path, todo, errors, rout,
                   copyFailed, cleanupFailed, rin>>

\* if backup_path and backup_path.exists(): shutil.move(backup_path, dest)
\* raise e
RollbackMove ==
    /\ rpc = "rollback_mv"
    /\ RestoreOnly
    /\ IF backup_path /\ backup.exists
       THEN dest' = move(backup, dest) /\ backup' = NoDir
       ELSE UNCHANGED <<dest, backup>>
    /\ Leave("raise")
    /\ UNCHANGED <<source, branch, backup_path, todo, errors, copyFailed,
                   cleanupFailed, rin>>

\* A restore that ends without removing the backup.
CleanupKeepsBackup(ok, left) ==
    /\ rpc = "cleanup"
    /\ RestoreOnly
    /\ ok /\ left = {}
    /\ Leave("return")
    /\ UNCHANGED <<dest, backup, source, branch, backup_path, todo, errors,
                   copyFailed, cleanupFailed, rin>>

\* if backup_path and backup_path.exists():
\*     try: shutil.rmtree(backup_path)
\*     except Exception: print("Warning: Failed to remove backup ...")
\* A removal that fails leaves the files in left.
CleanupBackup(ok, left) ==
    /\ rpc = "cleanup"
    /\ RestoreOnly
    /\ IF backup_path /\ backup.exists
       THEN IF ok
            THEN /\ left = {}
                 /\ backup' = rmtree(backup)
                 /\ UNCHANGED cleanupFailed
            ELSE /\ left \subseteq backup.files
                 /\ backup' = Dir(left)
                 /\ cleanupFailed' = TRUE
       ELSE /\ ok /\ left = {}
            /\ UNCHANGED <<backup, cleanupFailed>>
    /\ Leave("return")
    /\ UNCHANGED <<dest, source, branch, backup_path, todo, errors, copyFailed, rin>>

\* finally: git checkout main.  The return code is not looked at: when the
\* checkout fails (ok = FALSE; .git/index.lock is held by the git command of
\* another invocation or was left by one that was killed), the repository
\* stays where it is and _restore_impl ends as it would have.
RestoreFinally(ok) ==
    /\ rpc = "finally"
    /\ RestoreOnly
    /\ branch' = IF ok THEN "main" ELSE branch
    /\ source' = IF ok THEN mainTree ELSE source
    /\ rpc' = "done"
    /\ UNCHANGED <<dest, backup, backup_path, todo, errors, rout, copyFailed,
                   cleanupFailed, rin>>

AllFileEntries == { <<(<<f>>), c>> : f \in Files, c \in Contents }

RestoreNext ==
    \/ \E up \in BOOLEAN : RestoreCheckNetwork(up)
    \/ RestoreUpdateRepo
    \/ \E is_path \in BOOLEAN : RestoreRevParse(is_path)
    \/ \E ok \in BOOLEAN : RestoreCheckoutTag(ok)
    \/ RestoreTimeout
    \/ RestoreCheckSource
    \/ \E ok \in BOOLEAN : RestoreBackup(ok)
    \/ \E ok \in BOOLEAN : CopytreeMakedirs(ok)
    \/ \E e \in AllFileEntries, ok, partial \in BOOLEAN : CopytreeCopyFile(e, ok, partial)
    \/ CopytreeEnd
    \/ RollbackRmtree
    \/ RollbackMove
    \/ \E ok \in BOOLEAN, left \in SUBSET AllFileEntries : CleanupBackup(ok, left)
    \/ \E ok \in BOOLEAN : RestoreFinally(ok)

(***************************************************************************)
(* Tag names and version numbers.  A name is a sequence of characters.     *)
(***************************************************************************)
DigitChars == <<"0", "1", "2", "3", "4", "5", "6", "7", "8", "9">>
IsDigit(c) == \E d \in 1..10 : DigitChars[d] = c
DigitVal(c) == (CHOOSE d \in 1..10 : DigitChars[d] = c) - 1

\* f"{n}"
RECURSIVE str(_)
str(n) ==
    IF n < 10 THEN <<DigitChars[n + 1]>>
    ELSE str(n \div 10) \o <<DigitChars[(n % 10) + 1]>>

\* int(s), s a sequence of digits
RECURSIVE int(_)
int(s) ==
    IF s = <<>> THEN 0
    ELSE int(SubSeq(s, 1, Len(s) - 1)) * 10 + DigitVal(s[Len(s)])

\* A prefix test that leaves out the last character of the prefix.
startswith_name(s, prefix) ==
    /\ Len(prefix) - 1 <= Len(s)
    /\ SubSeq(s, 1, Len(prefix) - 1) = SubSeq(prefix, 1, Len(prefix) - 1)

startswith(s, prefix) ==
    /\ Len(prefix) <= Len(s)
    /\ SubSeq(s, 1, Len(prefix)) = prefix

Max(S) == CHOOSE m \in S : \A n \in S : n <= m

\* f"{skill_name}/v"
TagPrefix(skill_name) == skill_name \o <<"/", "v">>

\* version_tag = f"v{next_ver}"; full_tag = f"{skill_name}/{version_tag}"
FullTag(skill_name, n) == TagPrefix(skill_name) \o str(n)

\* git tag -l "{skill_name}/v*"
ListTags(skill_name, T) == { t \in T : startswith(t, TagPrefix(skill_name)) }

\* The digits a pattern without its closing "$" would capture: the longest
\* run of digits after the prefix.
PatternMatchUnanchored(skill_name, tag) ==
    LET k == Len(TagPrefix(skill_name))
        run == { n \in 0..(Len(tag) - k) :
                    \A i \in (k + 1)..(k + n) : IsDigit(tag[i]) }
    IN  IF startswith(tag, TagPrefix(skill_name))
        THEN SubSeq(tag, k + 1, k + Max(run))
        ELSE <<>>

\* re.compile(rf"^{re.escape(skill_name)}/v(\d+)$").match(tag): group 1 of
\* the match, <<>> when the tag does not match.
PatternMatch(skill_name, tag) ==
    LET k == Len(TagPrefix(skill_name))
    IN  IF /\ startswith(tag, TagPrefix(skill_name))
           /\ Len(tag) > k
           /\ \A i \in (k + 1)..Len(tag) : IsDigit(tag[i])
        THEN SubSeq(tag, k + 1, Len(tag))
        ELSE <<>>

\* max_ver = 0; for tag in existing_tags: ... if ver > max_ver: max_ver = ver
max_ver(skill_name, T) ==
    Max({0} \cup { int(PatternMatch(skill_name, t)) :
                     t \in { u \in ListTags(skill_name, T) :
                               PatternMatch(skill_name, u) # <<>> } })

\* An allocator that takes the lowest number without a tag.
FirstFree(skill_name, T) ==
    CHOOSE n \in 1..(max_ver(skill_name, T) + 1) :
        /\ FullTag(skill_name, n) \notin T
        /\ \A m \in 1..(n - 1) : FullTag(skill_name, m) \in T

\* next_ver = max_ver + 1
next_ver(skill_name, T) == max_ver(skill_name, T) + 1

(***************************************************************************)
(* save and delete_snapshot on an initialised snapshot repository, run one *)
(* after the other (each holds the lock while it runs).  A tree is one     *)
(* file: its content c and the stamp s (mtime and size) of the file.       *)
(***************************************************************************)
MaxStamp == 2           \* mtime/size stamps are 1..MaxStamp
MaxCmds == 3            \* commands run in one behaviour
MaxEdits == 1           \* changes made to the live trees in one behaviour
MiBPerStamp == 6        \* the size of a tree with stamp 1, in MiB

Skills == { <<"a">>, <<"a", "b">> }

\* Tags the repository may hold before the first command: well formed,
\* with a leading zero, without digits, without the "v", with trailing
\* characters, and of the other skill.
SeedTags ==
    { <<"a", "/", "v", "9">>,
      <<"a", "/", "v", "0", "2">>,
      <<"a", "/", "v">>,
      <<"a", "/", "1", "1">>,
      <<"a", "/", "v", "1", "2", "x">>,
      <<"a", "b", "/", "v", "3">> }

NoTree == [c |-> 0, s |-> 0]
NoBatch == [active |-> FALSE, todo |-> {}]
NoSave == [skill |-> <<>>, ver |-> 0]
NoLatest == [skill |-> <<>>, tag |-> <<>>]
NoFiles == <<>>
\* skills_dir / skill_name for skill a in a skills directory d
SkillPath == << <<"d">>, <<"a">> >>
NoEnum == [done |-> FALSE, hashed |-> {}, staged |-> {}, diffed |-> {}]
NoCacheData == [has_files |-> FALSE, files |-> NoFiles]
LiveTrees == [c : Contents, s : 1..MaxStamp]

\* SELF_SKILL_NAME = "skill-snapshot" (written "s" here)
SELF_SKILL_NAME == <<"s">>

\* self.skills_dir / skill_name, self.local_repo / skill_name: the directory
\* a name stands for; joining the paths drops a trailing "/".
Resolve(skill_name) ==
    IF Len(skill_name) > 1 /\ skill_name[Len(skill_name)] = "/"
    THEN SubSeq(skill_name, 1, Len(skill_name) - 1)
    ELSE skill_name

\* The name "." : skills_dir / "." is skills_dir and local_repo / "." is
\* local_repo (pathlib drops the component).
RootName == <<".">>

\* git check-ref-format: a name with an empty component is no tag name.
ValidRef(name) ==
    /\ name # <<>>
    /\ name[1] # "/"
    /\ name[Len(name)] # "/"
    /\ \A i \in 1..(Len(name) - 1) : ~(name[i] = "/" /\ name[i + 1] = "/")

(***************************************************************************)
(* The cache file of a skill, CACHE_DIR / f"{skill_name}.json".  Its kind: *)
(*   absent    no such file                                                *)
(*   ok        written by _save_cache: this CACHE_VERSION, the hash and    *)
(*             the stamp of the file                                       *)
(*   garbled   not JSON (json.JSONDecodeError) or not readable (OSError)   *)
(*   version   an object with another cache_version                        *)
(*   notdict   JSON, but not an object (e.g. [])                           *)
(*   badfiles  an object of this version whose "files" is no mapping       *)
(***************************************************************************)
NoCache == [kind |-> "absent", hash |-> 0, s |-> 0]
DamagedKinds == {"garbled", "version", "notdict", "badfiles"}
Damaged(kind) == [kind |-> kind, hash |-> 0, s |-> 0]

\* _get_cache_path(skill_name): the file cannot be created for a name that
\* ends in "/" (its directory does not exist; the OSError is caught).
CacheWritable(skill_name) == skill_name[Len(skill_name)] # "/"

\* _load_cache(skill_name): the data, {} (NoCache) when the file is absent,
\* does not parse or has another version.
_load_cache(skill_name) ==
    IF cache[skill_name].kind \in {"absent", "garbled", "version"}
    THEN NoCache
    ELSE cache[skill_name]

\* data.get(...) on a value that is no object: AttributeError, which
\* _load_cache does not catch.
_load_cache_raises(skill_name) == cache[skill_name].kind = "notdict"

\* _compute_skill_hash_incremental(skill_path, cache_data): the cached hash
\* is taken over when mtime and size are those of the cache.
ComputeHash(tree, cache_data) ==
    IF cache_data # NoCache /\ cache_data.s = tree.s
    THEN cache_data
    ELSE [kind |-> "ok", hash |-> tree.c, s |-> tree.s]

\* _has_changes_fast(skill_name) raises: the cache is no object, or its
\* "files" is no mapping (cached_files.get raises AttributeError).
_has_changes_fast_raises(skill_name) ==
    /\ index[Resolve(skill_name)] # 0
    /\ \/ _load_cache_raises(skill_name)
       \/ _load_cache(skill_name).kind = "badfiles"

\* _has_changes_fast(skill_name), when it returns
_has_changes_fast(skill_name) ==
    IF index[Resolve(skill_name)] = 0 THEN TRUE
    ELSE IF _load_cache(skill_name) = NoCache THEN TRUE
    ELSE ComputeHash(live[Resolve(skill_name)], _load_cache(skill_name)).hash
             # _load_cache(skill_name).hash

\* A cache update that takes over the hashes of the old cache where mtime
\* and size are the same.
CacheUpdatedIncrementally(skill_name) ==
    cache' = IF CacheWritable(skill_name)
             THEN [cache EXCEPT ![skill_name] =
                      ComputeHash(live[Resolve(skill_name)], _load_cache(skill_name))]
             ELSE cache

\* A save that leaves the cache file as it is.
CacheLeftAlone(skill_name) == UNCHANGED cache

\* _update_cache_after_save(skill_name)
_update_cache_after_save(skill_name) ==
    cache' = IF CacheWritable(skill_name)
             THEN [cache EXCEPT ![skill_name] =
                      ComputeHash(live[Resolve(skill_name)], NoCache)]
             ELSE cache

\* MAX_SKILL_SIZE_BYTES = MAX_SKILL_SIZE_MB * 1024 * 1024
MAX_SKILL_SIZE_BYTES == 10 * 1024 * 1024

\* _get_dir_size(path): a tree with stamp s is s * MiBPerStamp MiB large.
_get_dir_size(tree) == tree.s * MiBPerStamp * 1024 * 1024

\* The parameters and answers a path through a command never reads are
\* fixed, so that the path is taken once.
Unread(answers) == \A i \in 1..Len(answers) : answers[i]

\* What a command reports: how it ended (out), by which path (why), and
\* for a save whether it created a snapshot and with which version.
Outcome(op, skill_name, out, why, created, version) ==
    last' = [seq |-> last.seq + 1, op |-> op, skill |-> skill_name,
             out |-> out, why |-> why, created |-> created,
             version |-> version, edits |-> nedits]

\* _save_impl(skill_name, message, sync_remote, skip_fast_check).  The
\* other parameters are what the environment answers: check_network(), and
\* the return codes of git commit, git tag -a and git push.
_save_impl(skill_name, sync_remote, skip_fast_check, network, commit_ok, tag_ok, push_ok) ==
    LET dir == Resolve(skill_name)
        fetched == IF sync_remote THEN tags \cup remote ELSE tags
        ver == next_ver(skill_name, fetched)
        full_tag == FullTag(skill_name, ver)
        staged == [index EXCEPT ![dir] = live[dir].c]
        tagged == IF tag_ok /\ ValidRef(full_tag)
                  THEN fetched \cup {full_tag} ELSE fetched
        wipes == dir = RootName /\ git_dir /\ ~(sync_remote /\ ~network)
    IN
    /\ last.seq < MaxCmds
    /\ UNCHANGED <<lockVars, restoreVars, midsave, diffVars, toolVars, probeVars>>
    /\ git_dir' = (git_dir /\ ~wipes)
    /\ IF dir # RootName /\ live[dir] = NoTree
       THEN \* raise SkillNotFoundError
            /\ Unread(<<sync_remote, skip_fast_check, network, commit_ok, tag_ok, push_ok>>)
            /\ Outcome("save", skill_name, "raise", "not_found", FALSE, 0)
            /\ UNCHANGED <<tags, remote, index, head, cache, lastCreated, topDeleted>>
       ELSE IF ~git_dir
       THEN \* raise SnapshotError("Snapshot repository not initialized. ...")
            /\ Unread(<<sync_remote, skip_fast_check, network, commit_ok, tag_ok, push_ok>>)
            /\ Outcome("save", skill_name, "raise", "not_initialized", FALSE, 0)
            /\ UNCHANGED <<tags, remote, index, head, cache, lastCreated, topDeleted>>
       ELSE IF sync_remote /\ ~network
       THEN \* raise NetworkError
            /\ Unread(<<skip_fast_check, commit_ok, tag_ok, push_ok>>)
            /\ Outcome("save", skill_name, "raise", "no_network", FALSE, 0)
            /\ UNCHANGED <<tags, remote, index, head, cache, lastCreated, topDeleted>>
       ELSE IF dir = RootName
       THEN \* skill_path is skills_dir and target_dir is local_repo itself:
            \* shutil.rmtree(target_dir) removes the repository with its
            \* .git and its cache directory, copytree copies every skill
            \* into the place, git add and git diff --cached fail there,
            \* raise SnapshotError("Error committing changes.")
            /\ Unread(<<sync_remote \/ network, skip_fast_check, commit_ok, tag_ok, push_ok>>)
            /\ tags' = {}
            /\ index' = [k \in DOMAIN index |-> live[k].c]
            /\ head' = [k \in DOMAIN head |-> 0]
            /\ cache' = [k \in DOMAIN cache |-> NoCache]
            /\ Outcome("save", skill_name, "raise", "commit_failed", FALSE, 0)
            /\ UNCHANGED <<remote, lastCreated, topDeleted>>
       ELSE IF ~skip_fast_check /\ _has_changes_fast_raises(skill_name)
       THEN \* AttributeError out of _has_changes_fast
            /\ Unread(<<sync_remote \/ network, commit_ok, tag_ok, push_ok>>)
            /\ tags' = fetched
            /\ Outcome("save", skill_name, "raise", "cache_error", FALSE, 0)
            /\ UNCHANGED <<remote, index, head, cache, lastCreated, topDeleted>>
       ELSE IF ~skip_fast_check /\ ~_has_changes_fast(skill_name)
       THEN \* No changes detected (fast check)
            /\ Unread(<<sync_remote \/ network, commit_ok, tag_ok, push_ok>>)
            /\ tags' = fetched
            /\ Outcome("save", skill_name, "return", "fast_unchanged", FALSE, 0)
            /\ UNCHANGED <<remote, index, head, cache, lastCreated, topDeleted>>
       ELSE IF staged = head
       THEN \* git diff --cached --quiet returns 0
            /\ Unread(<<sync_remote \/ network, commit_ok, tag_ok, push_ok>>)
            /\ tags' = fetched
            /\ index' = staged
            /\ _update_cache_after_save(skill_name)
            /\ Outcome("save", skill_name, "return", "staged_identical", FALSE, 0)
            /\ UNCHANGED <<remote, head, lastCreated, topDeleted>>
       ELSE IF ~commit_ok
       THEN \* raise SnapshotError("Error committing changes.")
            /\ Unread(<<sync_remote \/ network, tag_ok, push_ok>>)
            /\ tags' = fetched
            /\ index' = staged
            /\ Outcome("save", skill_name, "raise", "commit_failed", FALSE, 0)
            /\ UNCHANGED <<remote, head, cache, lastCreated, topDeleted>>
       ELSE \* git commit; git tag -a; git push; git push full_tag
            /\ Unread(<<sync_remote \/ network>>)
            /\ tags' = tagged
            /\ index' = staged
            /\ head' = staged
            /\ remote' = IF push_ok THEN remote \cup ({full_tag} \cap tagged)
                         ELSE remote
            /\ _update_cache_after_save(skill_name)
            /\ Outcome("save", skill_name, "return", "created", TRUE, ver)
            /\ lastCreated' = [lastCreated EXCEPT ![skill_name] = ver]
            /\ topDeleted' = [topDeleted EXCEPT ![skill_name] = FALSE]
    /\ UNCHANGED <<live, retired, nedits>>

\* _delete_snapshot_impl(skill_name, version); network, delete_ok and
\* push_ok are check_network() and the return codes of git tag -d and of
\* git push origin --delete.
_delete_snapshot_impl(skill_name, version, network, delete_ok, push_ok) ==
    LET full_tag == IF startswith(version, skill_name \o <<"/">>)
                    THEN version
                    ELSE skill_name \o <<"/">> \o version
        mismatch == /\ ~startswith(version, skill_name \o <<"/">>)
                    /\ \E i \in 1..Len(version) : version[i] = "/"
        digits == PatternMatch(skill_name, full_tag)
    IN
    /\ last.seq < MaxCmds
    /\ VersionOnly
    /\ IF ~network \/ mismatch \/ full_tag \notin tags \/ ~delete_ok
       THEN \* sys.exit(1)
            /\ IF ~network \/ mismatch \/ full_tag \notin tags
               THEN Unread(<<delete_ok, push_ok>>)
               ELSE Unread(<<push_ok>>)
            /\ Outcome("delete_snapshot", skill_name, "exit", "rejected", FALSE, 0)
            /\ UNCHANGED <<tags, remote, retired, topDeleted>>
       ELSE /\ tags' = tags \ {full_tag}
            /\ remote' = IF push_ok THEN remote \ {full_tag} ELSE remote
            /\ Outcome("delete_snapshot", skill_name, "return", "deleted", FALSE, 0)
            /\ IF digits # <<>>
               THEN /\ retired' = [retired EXCEPT ![skill_name] = @ \cup {int(digits)}]
                    /\ topDeleted' =
                          [topDeleted EXCEPT ![skill_name] =
                              @ \/ int(digits) = max_ver(skill_name, tags)]
               ELSE UNCHANGED <<retired, topDeleted>>
    /\ UNCHANGED <<live, index, head, cache, lastCreated, nedits>>

\* The user changes, touches, removes or creates the live tree of a skill.
Edit(skill_name, tree) ==
    /\ last.seq < MaxCmds
    /\ nedits < MaxEdits
    /\ VersionOnly
    /\ nedits' = nedits + 1
    /\ tree # live[skill_name]
    /\ live' = [live EXCEPT ![skill_name] = tree]
    /\ UNCHANGED <<tags, remote, index, head, cache, last, lastCreated,
                   topDeleted, retired, batch>>

\* The cache file of a skill is damaged or replaced from outside.
DamageCache(skill_name, kind) ==
    /\ last.seq < MaxCmds
    /\ nedits < MaxEdits
    /\ VersionOnly
    /\ nedits' = nedits + 1
    /\ cache[skill_name].kind = "ok"
    /\ cache' = [cache EXCEPT ![skill_name] = Damaged(kind)]
    /\ UNCHANGED <<tags, remote, live, index, head, last, lastCreated,
                   topDeleted, retired, batch>>

\* The version arguments tried with delete_snapshot: "v1", every tag in
\* full, and what follows the first "/" of every tag.
VersionArgs ==
    {<<"v", "1">>} \cup tags
    \cup { SubSeq(t, i + 1, Len(t)) : t \in tags, i \in {1, 2} }

VersionNext ==
    \/ \E skill_name \in Skills,
          sync_remote, skip_fast_check, network, commit_ok, tag_ok, push_ok \in BOOLEAN :
          /\ _save_impl(skill_name, sync_remote, skip_fast_check, network,
                        commit_ok, tag_ok, push_ok)
          /\ UNCHANGED batch
    \/ \E skill_name \in Skills, version \in VersionArgs,
          network, delete_ok, push_ok \in BOOLEAN :
          /\ _delete_snapshot_impl(skill_name, version, network, delete_ok, push_ok)
          /\ UNCHANGED batch
    \/ \E skill_name \in Skills, tree \in LiveTrees \cup {NoTree} :
          Edit(skill_name, tree)
    \/ \E skill_name \in Skills, kind \in DamagedKinds :
          DamageCache(skill_name, kind)

(***************************************************************************)
(* The commands as main() dispatches them, one after the other: the        *)
(* self-protection check, the lock, the implementation.  Here a command is *)
(* one step, so that the lock it acquires it has released again when the   *)
(* step is over; a lock that is there was written by another invocation.   *)
(***************************************************************************)
CmdDirs == { <<"a">>, SELF_SKILL_NAME }
\* The names given on the command line: each directory, and the reserved
\* directory with a trailing separator.
CmdNames == CmdDirs \cup { SELF_SKILL_NAME \o <<"/">> }

\* An acquire that takes the lock whatever record is there.
_acquire_lock_takes_over == FALSE

\* not self._acquire_lock(), with no other invocation under way
_acquire_lock_fails == LockExists /\ ~IsStale(lock_age)

\* A command that ends before it has changed anything.
Rejected(op, skill_name, out, why) ==
    /\ last.seq < MaxCmds
    /\ VersionOnly
    /\ Outcome(op, skill_name, out, why, FALSE, 0)
    /\ UNCHANGED <<tags, remote, live, index, head, cache, lastCreated,
                   topDeleted, retired, nedits, batch>>

\* if skill_name == SELF_SKILL_NAME
IsSelf(skill_name) == skill_name = SELF_SKILL_NAME

save(skill_name, sync_remote, skip_fast_check, network, commit_ok, tag_ok, push_ok) ==
    /\ ~batch.active
    /\ IF IsSelf(skill_name)
       THEN /\ Unread(<<sync_remote, skip_fast_check, network, commit_ok, tag_ok, push_ok>>)
            /\ Rejected("save", skill_name, "raise", "self")
       ELSE IF _acquire_lock_fails
       THEN /\ Unread(<<sync_remote, skip_fast_check, network, commit_ok, tag_ok, push_ok>>)
            /\ Rejected("save", skill_name, "raise", "locked")
       ELSE /\ _save_impl(skill_name, sync_remote, skip_fast_check, network,
                          commit_ok, tag_ok, push_ok)
            /\ UNCHANGED batch

\* restore(skill_name, version).  _restore_impl is taken in one step here:
\* tree is what the tag holds for the skill, copy_ok whether the copy into
\* the live directory went through (if not, the rollback puts the former
\* tree back).
restore(skill_name, version, network, tree, copy_ok) ==
    LET full_tag == IF startswith(version, skill_name \o <<"/">>)
                    THEN version
                    ELSE skill_name \o <<"/">> \o version
    IN
    /\ ~batch.active
    /\ IF IsSelf(skill_name)
       THEN /\ Unread(<<network, copy_ok>>)
            /\ Rejected("restore", skill_name, "exit", "self")
       ELSE IF _acquire_lock_fails
       THEN /\ Unread(<<network, copy_ok>>)
            /\ Rejected("restore", skill_name, "exit", "locked")
       ELSE IF ~network
       THEN /\ Unread(<<copy_ok>>)
            /\ Rejected("restore", skill_name, "exit", "no_network")
       ELSE IF full_tag \notin tags \cup remote
       THEN /\ Unread(<<copy_ok>>)
            /\ Rejected("restore", skill_name, "exit", "not_found")
       ELSE IF ~copy_ok
       THEN Rejected("restore", skill_name, "raise", "copy_failed")
       ELSE /\ last.seq < MaxCmds
            /\ VersionOnly
            /\ live' = [live EXCEPT ![Resolve(skill_name)] = tree]
            /\ tags' = tags \cup remote
            /\ Outcome("restore", skill_name, "return", "restored", FALSE, 0)
            /\ UNCHANGED <<remote, index, head, cache, lastCreated,
                           topDeleted, retired, nedits, batch>>

delete_snapshot(skill_name, version, network, delete_ok, push_ok) ==
    /\ ~batch.active
    /\ IF IsSelf(skill_name)
       THEN /\ Unread(<<network, delete_ok, push_ok>>)
            /\ Rejected("delete_snapshot", skill_name, "exit", "self")
       ELSE IF _acquire_lock_fails
       THEN /\ Unread(<<network, delete_ok, push_ok>>)
            /\ Rejected("delete_snapshot", skill_name, "exit", "locked")
       ELSE /\ _delete_snapshot_impl(skill_name, version, network, delete_ok, push_ok)
            /\ UNCHANGED batch

\* backup_all up to its loop over the changed trees: the lock, the network,
\* the one sync with the remote, the scan of the skills directory and the
\* pre-scan for changes.
backup_all(network) ==
    LET skills == { d \in DOMAIN live : live[d] # NoTree /\ d # SELF_SKILL_NAME }
        skills_to_backup == { d \in skills : _has_changes_fast(d) }
    IN
    /\ ~batch.active
    /\ IF _acquire_lock_fails
       THEN /\ Unread(<<network>>)
            /\ Rejected("backup_all", <<>>, "exit", "locked")
       ELSE IF ~network
       THEN Rejected("backup_all", <<>>, "exit", "no_network")
       ELSE /\ last.seq < MaxCmds
            /\ VersionOnly
            /\ tags' = tags \cup remote
            /\ UNCHANGED <<remote, live, index, head, cache, lastCreated,
                           topDeleted, retired, nedits>>
            /\ IF skills = {}
               THEN /\ Outcome("backup_all", <<>>, "return", "no_skills", FALSE, 0)
                    /\ UNCHANGED batch
               ELSE IF \E d \in skills : _has_changes_fast_raises(d)
               THEN /\ Outcome("backup_all", <<>>, "raise", "cache_error", FALSE, 0)
                    /\ UNCHANGED batch
               ELSE IF skills_to_backup = {}
               THEN /\ Outcome("backup_all", <<>>, "return", "up_to_date", FALSE, 0)
                    /\ UNCHANGED batch
               ELSE /\ batch' = [active |-> TRUE, todo |-> skills_to_backup]
                    /\ UNCHANGED last

\* One round of backup_all's loop: self.save(skill, message,
\* sync_remote=False, skip_fast_check=True).  acquired is what the save's
\* own _acquire_lock() returns: False while the record that backup_all wrote
\* is there and not older than 600 seconds (the save then raises the
\* SnapshotError that the loop catches), True once that record is stale or
\* an earlier round has removed it.
backup_all_save(skill, acquired, commit_ok, tag_ok, push_ok) ==
    /\ batch.active
    /\ skill \in batch.todo
    /\ batch' = [batch EXCEPT !.todo = @ \ {skill}]
    /\ IF ~acquired
       THEN /\ Unread(<<commit_ok, tag_ok, push_ok>>)
            /\ last.seq < MaxCmds
            /\ VersionOnly
            /\ Outcome("save", skill, "raise", "locked", FALSE, 0)
            /\ UNCHANGED <<tags, remote, live, index, head, cache, lastCreated,
                           topDeleted, retired, nedits>>
       ELSE _save_impl(skill, FALSE, TRUE, TRUE, commit_ok, tag_ok, push_ok)

\* backup_all after its loop: the summary, and the finally clause.
backup_all_end ==
    /\ batch.active
    /\ batch.todo = {}
    /\ last.seq < MaxCmds
    /\ VersionOnly
    /\ batch' = NoBatch
    /\ Outcome("backup_all", <<>>, "return", "done", FALSE, 0)
    /\ UNCHANGED <<tags, remote, live, index, head, cache, lastCreated,
                   topDeleted, retired, nedits>>

\* rebuild_cache(skill_name); skill_name <<>> is None.  No lock is taken.
rebuild_cache(skill_name) ==
    LET skills == { d \in DOMAIN live : live[d] # NoTree /\ d # SELF_SKILL_NAME }
    IN
    /\ last.seq < MaxCmds
    /\ VersionOnly
    /\ IF skill_name # <<>> /\ live[Resolve(skill_name)] = NoTree
       THEN \* sys.exit(1)
            /\ Outcome("rebuild_cache", skill_name, "exit", "not_found", FALSE, 0)
            /\ UNCHANGED cache
       ELSE IF skill_name # <<>>
       THEN /\ _update_cache_after_save(skill_name)
            /\ Outcome("rebuild_cache", skill_name, "return", "rebuilt", FALSE, 0)
       ELSE /\ cache' = [k \in DOMAIN cache |->
                           IF k \in skills
                           THEN ComputeHash(live[k], NoCache) ELSE cache[k]]
            /\ Outcome("rebuild_cache", skill_name, "return", "rebuilt", FALSE, 0)
    /\ UNCHANGED <<tags, remote, live, index, head, lastCreated, topDeleted,
                   retired, nedits, batch>>

\* clear_cache(skill_name); skill_name <<>> is None.  No lock is taken.
clear_cache(skill_name) ==
    /\ last.seq < MaxCmds
    /\ VersionOnly
    /\ cache' = IF skill_name # <<>>
                THEN [cache EXCEPT ![skill_name] = NoCache]
                ELSE [k \in DOMAIN cache |-> NoCache]
    /\ Outcome("clear_cache", skill_name, "return", "cleared", FALSE, 0)
    /\ UNCHANGED <<tags, remote, live, index, head, lastCreated, topDeleted,
                   retired, nedits, batch>>

\* The version arguments tried with restore and delete_snapshot.
CmdVersions == { <<"v", "1">>, SELF_SKILL_NAME \o <<"/", "v", "1">> }

CommandNext ==
    \/ \E skill_name \in CmdNames,
          sync_remote, skip_fast_check, network, commit_ok, tag_ok, push_ok \in BOOLEAN :
          save(skill_name, sync_remote, skip_fast_check, network,
               commit_ok, tag_ok, push_ok)
    \/ \E skill_name \in CmdNames, version \in CmdVersions, tree \in LiveTrees,
          network, copy_ok \in BOOLEAN :
          restore(skill_name, version, network, tree, copy_ok)
    \/ \E skill_name \in CmdNames, version \in CmdVersions,
          network, delete_ok, push_ok \in BOOLEAN :
          delete_snapshot(skill_name, version, network, delete_ok, push_ok)
    \/ \E network \in BOOLEAN : backup_all(network)
    \/ \E skill \in CmdDirs, acquired, commit_ok, tag_ok, push_ok \in BOOLEAN :
          backup_all_save(skill, acquired, commit_ok, tag_ok, push_ok)
    \/ backup_all_end
    \/ \E d \in CmdDirs, tree \in LiveTrees \cup {NoTree} : Edit(d, tree)
    \/ \E d \in CmdDirs, kind \in DamagedKinds : DamageCache(d, kind)

(***************************************************************************)
(* _save_impl in two steps.  The live tree is not under the lock: an       *)
(* editor or another program can change it while a save is running.  The   *)
(* first step is the save up to shutil.copytree and git add, the second    *)
(* the rest: git diff --cached, commit, tag, push and the cache update.    *)
(***************************************************************************)
\* The save returns or raises before it copies anything.
SaveEndsEarly(skill_name, sync_remote, skip_fast_check, network) ==
    \/ live[Resolve(skill_name)] = NoTree
    \/ ~git_dir
    \/ sync_remote /\ ~network
    \/ /\ ~skip_fast_check
       /\ \/ _has_changes_fast_raises(skill_name)
          \/ ~_has_changes_fast(skill_name)

_save_impl_copy(skill_name, sync_remote, skip_fast_check, network) ==
    LET dir == Resolve(skill_name)
        fetched == IF sync_remote THEN tags \cup remote ELSE tags
    IN
    /\ midsave = NoSave
    /\ IF SaveEndsEarly(skill_name, sync_remote, skip_fast_check, network)
       THEN /\ _save_impl(skill_name, sync_remote, skip_fast_check, network,
                          TRUE, TRUE, TRUE)
            /\ UNCHANGED batch
       ELSE /\ last.seq < MaxCmds
            /\ Unread(<<sync_remote \/ network>>)
            /\ tags' = fetched
            /\ index' = [index EXCEPT ![dir] = live[dir].c]
            /\ UNCHANGED git_dir
            /\ midsave' = [skill |-> skill_name,
                           ver |-> next_ver(skill_name, fetched)]
            /\ UNCHANGED <<lockVars, restoreVars, diffVars, toolVars, probeVars, remote, live,
                           head, cache, last, lastCreated, topDeleted,
                           retired, nedits, batch>>

_save_impl_commit(commit_ok, tag_ok, push_ok) ==
    LET skill_name == midsave.skill
        full_tag == FullTag(skill_name, midsave.ver)
        tagged == IF tag_ok /\ ValidRef(full_tag)
                  THEN tags \cup {full_tag} ELSE tags
    IN
    /\ midsave # NoSave
    /\ midsave' = NoSave
    /\ UNCHANGED git_dir
    /\ UNCHANGED <<lockVars, restoreVars, diffVars, toolVars, probeVars, live, index,
                   retired, nedits, batch>>
    /\ IF index = head
       THEN \* git diff --cached --quiet returns 0
            /\ Unread(<<commit_ok, tag_ok, push_ok>>)
            /\ _update_cache_after_save(skill_name)
            /\ Outcome("save", skill_name, "return", "staged_identical", FALSE, 0)
            /\ UNCHANGED <<tags, remote, head, lastCreated, topDeleted>>
       ELSE IF ~commit_ok
       THEN \* raise SnapshotError("Error committing changes.")
            /\ Unread(<<tag_ok, push_ok>>)
            /\ Outcome("save", skill_name, "raise", "commit_failed", FALSE, 0)
            /\ UNCHANGED <<tags, remote, head, cache, lastCreated, topDeleted>>
       ELSE \* git commit; git tag -a; git push; git push full_tag
            /\ tags' = tagged
            /\ head' = index
            /\ remote' = IF push_ok THEN remote \cup ({full_tag} \cap tagged)
                         ELSE remote
            /\ _update_cache_after_save(skill_name)
            /\ Outcome("save", skill_name, "return", "created", TRUE, midsave.ver)
            /\ lastCreated' = [lastCreated EXCEPT ![skill_name] = midsave.ver]
            /\ topDeleted' = [topDeleted EXCEPT ![skill_name] = FALSE]

\* What a call of _has_changes_fast gives: True, False, or the exception.
HasChangesAnswer(skill_name) ==
    IF _has_changes_fast_raises(skill_name) THEN "raise"
    ELSE IF _has_changes_fast(skill_name) THEN "changed"
    ELSE "unchanged"

\* A change detector that refreshes the cache of the skill it looks at.
has_changes_refreshing(skill_name) ==
    /\ answer' = HasChangesAnswer(skill_name)
    /\ _update_cache_after_save(skill_name)
    /\ UNCHANGED <<lockVars, restoreVars, stepVars, diffVars, toolVars, latest,
                   snapshot_exists, cache_file, skill_files, tags, remote,
                   live, index, head, last, lastCreated, topDeleted, retired,
                   nedits, batch>>

\* A call of _has_changes_fast(skill_name) at any moment, by this process
\* or another: it leaves nothing but its answer.
has_changes(skill_name) ==
    /\ answer' = HasChangesAnswer(skill_name)
    /\ UNCHANGED <<lockVars, restoreVars, versionVars, stepVars, diffVars, toolVars,
                   latest, snapshot_exists, cache_file, skill_files>>

InterleavedNext ==
    \/ \E skill_name \in Skills : has_changes(skill_name)
    \/ \E skill_name \in Skills, sync_remote, skip_fast_check, network \in BOOLEAN :
          _save_impl_copy(skill_name, sync_remote, skip_fast_check, network)
    \/ \E commit_ok, tag_ok, push_ok \in BOOLEAN :
          _save_impl_commit(commit_ok, tag_ok, push_ok)
    \/ \E skill_name \in Skills, tree \in LiveTrees : Edit(skill_name, tree)

(***************************************************************************)
(* The commands on two skills, and on the name ".".                         *)
(***************************************************************************)
FrameVersions == { <<"v", "9">>, <<"v", "1">> }

FrameNext ==
    \/ \E skill_name \in Skills \cup {RootName},
          sync_remote, skip_fast_check, network, commit_ok, tag_ok, push_ok \in BOOLEAN :
          save(skill_name, sync_remote, skip_fast_check, network,
               commit_ok, tag_ok, push_ok)
    \/ \E skill_name \in Skills, version \in FrameVersions, tree \in LiveTrees,
          network, copy_ok \in BOOLEAN :
          restore(skill_name, version, network, tree, copy_ok)
    \/ \E skill_name \in Skills, version \in FrameVersions,
          network, delete_ok, push_ok \in BOOLEAN :
          delete_snapshot(skill_name, version, network, delete_ok, push_ok)
    \/ \E skill_name \in Skills \cup {<<>>} : rebuild_cache(skill_name)
    \/ \E skill_name \in Skills \cup {<<>>} : clear_cache(skill_name)
    \/ \E skill_name \in Skills, tree \in LiveTrees : Edit(skill_name, tree)

(***************************************************************************)
(* _compare_dirs(dir1, dir2).  A file name is a sequence of characters, a  *)
(* relative path the sequence of its names, a file content a sequence of   *)
(* characters; a directory is the function from the paths of its files to  *)
(* their contents.                                                         *)
(***************************************************************************)
\* The characters of the model, in the order of their code points.
CharOrder ==
    <<"\n", "!", "+", "-", ".", "/",
      "0", "1", "2", "3", "4", "5", "6", "7", "8", "9",
      "_", "a", "b", "c", "d", "g", "i", "m", "p", "t", "v", "x", "y">>
ord(c) == CHOOSE i \in 1..Len(CharOrder) : CharOrder[i] = c

\* a < b for two str values
RECURSIVE StrLess(_, _)
StrLess(a, b) ==
    IF b = <<>> THEN FALSE
    ELSE IF a = <<>> THEN TRUE
    ELSE IF a[1] # b[1] THEN ord(a[1]) < ord(b[1])
    ELSE StrLess(Tail(a), Tail(b))

\* An order of paths that compares the "/"-joined strings.
RECURSIVE PosixString(_)
PosixString(path) ==
    IF Len(path) = 1 THEN path[1]
    ELSE path[1] \o <<"/">> \o PosixString(Tail(path))
StringLess(p, q) == StrLess(PosixString(p), PosixString(q))

\* p < q for two Path values: the lists of their parts are compared
RECURSIVE PathLess(_, _)
PathLess(p, q) ==
    IF q = <<>> THEN FALSE
    ELSE IF p = <<>> THEN TRUE
    ELSE IF p[1] # q[1] THEN StrLess(p[1], q[1])
    ELSE PathLess(Tail(p), Tail(q))

\* sorted(list(S))
RECURSIVE sorted(_)
sorted(S) ==
    IF S = {} THEN <<>>
    ELSE LET first == CHOOSE p \in S : \A q \in S \ {p} : PathLess(p, q)
         IN <<first>> \o sorted(S \ {first})

\* The paths of the model: d.m, d/x, .git/x, c.pyc and c.pyc/x
PathDotM == << <<"d", ".", "m">> >>
PathDirX == << <<"d">>, <<"x">> >>
PathGit == << <<".", "g", "i", "t">>, <<"x">> >>
PathPyc == << <<"c", ".", "p", "y", "c">> >>
PathPycDir == << <<"c", ".", "p", "y", "c">>, <<"x">> >>

\* ignore_names (one of its ten names is in the model)
ignore_names == { <<".", "g", "i", "t">> }

\* p.suffix: the last name from its last "." on, unless that is its first
\* character or its last
suffix(path) ==
    LET name == path[Len(path)]
        dots == { i \in 2..(Len(name) - 1) : name[i] = "." }
    IN IF dots = {} THEN <<>>
       ELSE SubSeq(name, CHOOSE i \in dots : \A j \in dots : j <= i, Len(name))

\* get_files(d) of _compare_dirs, for the directory d whose path has the
\* parts root: p.parts are the parts of the whole path of the file, those
\* of d included; the paths it returns are relative to d.
get_files(root, d) ==
    { path \in DOMAIN d :
         /\ ~(\E i \in 1..Len(root \o path) : (root \o path)[i] \in ignore_names)
         /\ suffix(path) \notin { <<".", "p", "y", "c">>, <<".", "p", "y", "o">> } }

\* _get_skill_files(skill_path), for the files d of the tree: the same test
\* on file_path.parts and file_path.suffix.
_get_skill_files(d) ==
    { path \in DOMAIN d :
         /\ ~(\E i \in 1..Len(skill_path \o path) :
                 (skill_path \o path)[i] \in ignore_names)
         /\ suffix(path) \notin { <<".", "p", "y", "c">>, <<".", "p", "y", "o">> } }

\* snapshot_skill_path = temp_path / skill_name, the temporary directory
\* being t
snapshot_skill_path == << <<"t">>, skill_path[Len(skill_path)] >>

\* The contents of the model: "x", "x\n", "y", and a file that cannot be
\* read (read_text raises).
Unreadable == <<"!">>
FileContents == { <<"x">>, <<"x", "\n">>, <<"y">>, Unreadable }

\* s.splitlines(keepends=True)
RECURSIVE SplitLinesKeepEnds(_)
SplitLinesKeepEnds(text) ==
    IF text = <<>> THEN <<>>
    ELSE LET ends == { i \in 1..Len(text) : text[i] = "\n" }
         IN IF ends = {} THEN <<text>>
            ELSE LET i == CHOOSE e \in ends : \A f \in ends : e <= f
                 IN <<SubSeq(text, 1, i)>>
                       \o SplitLinesKeepEnds(SubSeq(text, i + 1, Len(text)))

\* s.splitlines()
RECURSIVE splitlines(_)
splitlines(text) ==
    IF text = <<>> THEN <<>>
    ELSE LET ends == { i \in 1..Len(text) : text[i] = "\n" }
         IN IF ends = {} THEN <<text>>
            ELSE LET i == CHOOSE e \in ends : \A f \in ends : e <= f
                 IN <<SubSeq(text, 1, i - 1)>>
                       \o splitlines(SubSeq(text, i + 1, Len(text)))

\* What the loop of _compare_dirs prints for path f: one line, or nothing.
CompareLine(d1, d2, f) ==
    LET files1 == get_files(snapshot_skill_path, d1)
        files2 == get_files(skill_path, d2)
    IN IF f \in files1 /\ f \notin files2 THEN << <<"Removed", f>> >>
       ELSE IF f \notin files1 /\ f \in files2 THEN << <<"Added", f>> >>
       ELSE IF Unreadable \in {d1[f], d2[f]} THEN << <<"Error", f>> >>
       ELSE IF splitlines(d1[f]) # splitlines(d2[f]) THEN << <<"Modified", f>> >>
       ELSE <<>>

RECURSIVE CompareLines(_, _, _)
CompareLines(d1, d2, all_files) ==
    IF all_files = <<>> THEN <<>>
    ELSE CompareLine(d1, d2, Head(all_files))
            \o CompareLines(d1, d2, Tail(all_files))

_compare_dirs ==
    LET all_files == sorted(get_files(snapshot_skill_path, dir1)
                               \cup get_files(skill_path, dir2))
        lines == CompareLines(dir1, dir2, all_files)
    IN
    /\ ~compared
    /\ DiffOnly
    /\ compared' = TRUE
    /\ report' = lines
    /\ has_diff' = \E i \in 1..Len(lines) : lines[i][1] # "Error"
    /\ UNCHANGED <<dir1, dir2>>

\* ignore_patterns(path, names) of _save_impl: the names it ignores, in a
\* directory at any depth (ignore_list has the ten names of ignore_names
\* and the two patterns, which match no name literally).
ignore_patterns(names) ==
    { name \in names :
         \/ name \in ignore_names
         \/ /\ Len(name) >= 4
            /\ SubSeq(name, Len(name) - 3, Len(name))
                  \in { <<".", "p", "y", "c">>, <<".", "p", "y", "o">> } }

\* shutil.copytree(skill_path, target_dir, ignore=ignore_patterns): the
\* files of the copy
copytree(d) ==
    LET kept == { path \in DOMAIN d :
                    ignore_patterns({ path[i] : i \in 1..Len(path) }) = {} }
    IN [path \in kept |-> d[path]]

\* save of the local directory dir2 followed by diff against the version
\* it created: the snapshot directory is what copytree has staged, git has
\* committed and git archive extracts.  copytree raises on a file it cannot
\* read, and then there is no snapshot to compare with.
diff_after_save ==
    LET staged == copytree(dir2)
        all_files == sorted(get_files(snapshot_skill_path, staged)
                               \cup get_files(skill_path, dir2))
        lines == CompareLines(staged, dir2, all_files)
    IN
    /\ ~compared
    /\ \A path \in DOMAIN dir2 : dir2[path] # Unreadable
    /\ DiffOnly
    /\ compared' = TRUE
    /\ dir1' = staged
    /\ report' = lines
    /\ has_diff' = \E i \in 1..Len(lines) : lines[i][1] # "Error"
    /\ UNCHANGED dir2

\* The directories of the model: every choice of files among these paths;
\* the files that the ignore rules are about hold "x" where they exist.
CompareDirs ==
    UNION { [P -> FileContents] : P \in SUBSET {PathDotM, PathDirX} }
CompareIgnored ==
    UNION { [P -> { <<"x">> }] : P \in SUBSET {PathGit, PathPyc, PathPycDir} }

(***************************************************************************)
(* diff(skill_name) without a version: the tag it compares with.           *)
(***************************************************************************)
\* t.split("/v")
RECURSIVE split(_)
split(t) ==
    LET at == { i \in 1..(Len(t) - 1) : t[i] = "/" /\ t[i + 1] = "v" }
    IN IF at = {} THEN <<t>>
       ELSE LET i == CHOOSE j \in at : \A k \in at : j <= k
            IN <<SubSeq(t, 1, i - 1)>> \o split(SubSeq(t, i + 2, Len(t)))

\* ver_key(t): int(t.split("/v")[1]), 0 on IndexError and ValueError.  int
\* takes a sign and then digits, with single "_" between digits.
ver_key(t) ==
    LET pieces == split(t)
        s == pieces[2]
        body == IF s # <<>> /\ s[1] \in {"+", "-"} THEN Tail(s) ELSE s
        literal ==
            /\ body # <<>>
            /\ \A i \in 1..Len(body) :
                  \/ IsDigit(body[i])
                  \/ /\ body[i] = "_"
                     /\ 1 < i /\ i < Len(body)
                     /\ IsDigit(body[i - 1]) /\ IsDigit(body[i + 1])
    IN IF Len(pieces) < 2 THEN 0
       ELSE IF ~literal THEN 0
       ELSE IF s[1] = "-" THEN 0 - int(SelectSeq(body, IsDigit))
       ELSE int(SelectSeq(body, IsDigit))

\* tags.sort(key=ver_key); tags[-1], for the tags in the order git prints
\* them (by name): the sort is stable, so of the tags with the highest key
\* the last by name is taken.
sort_last(listed) ==
    CHOOSE t \in listed :
        \A u \in listed \ {t} :
            \/ ver_key(u) < ver_key(t)
            \/ ver_key(u) = ver_key(t) /\ StrLess(u, t)

\* diff(skill_name, None) as far as the version is resolved
diff_resolve(skill_name) ==
    LET listed == ListTags(skill_name, tags)
    IN
    /\ latest = NoLatest
    /\ ProbeOnly
    /\ latest' = [skill |-> skill_name,
                  tag |-> IF listed = {} THEN <<>> ELSE sort_last(listed)]
    /\ UNCHANGED <<answer, snapshot_exists, cache_file, skill_files>>

\* The skills diff is called for, one with "/v" in its name, and the tags of
\* the repository: v9, v10 and v0 of skill a, tags of a that the allocator
\* does not count, and v9 and v10 of skill a/vb.
LatestSkills == { <<"a">>, <<"a", "/", "v", "b">> }
LatestSeedTags ==
    { <<"a", "/", "v", "9">>,
      <<"a", "/", "v", "1", "0">>,
      <<"a", "/", "v", "0">>,
      <<"a", "/", "v", "x">>,
      <<"a", "/", "v", "+", "1", "1">>,
      <<"a", "/", "v", "1", "_", "2">>,
      <<"a", "/", "v", "-", "1">>,
      <<"a", "/", "v", "b", "/", "v", "9">>,
      <<"a", "/", "v", "b", "/", "v", "1", "0">> }

(***************************************************************************)
(* _has_changes_fast on the files of a skill.  A file of the skill has its *)
(* hash (0 for the "" that _compute_file_hash gives for a file it cannot   *)
(* read), its mtime, its size, and whether stat() succeeds on it; an entry *)
(* of the cache has hash, mtime and size.                                  *)
(***************************************************************************)
\* A hash map that reuses nothing.
compute_skill_hash_fresh(files, cached_files) ==
    [path \in { f \in _get_skill_files(files) : files[f].stat_ok } |->
        [hash |-> files[path].hash, mtime |-> files[path].mtime,
         size |-> files[path].size]]

\* _compute_skill_hash_incremental(skill_path, cache_data), with
\* cached_files = cache_data.get("files", {})
_compute_skill_hash_incremental(files, cached_files) ==
    [path \in { f \in _get_skill_files(files) : files[f].stat_ok } |->
        IF /\ path \in DOMAIN cached_files
           /\ cached_files[path].mtime = files[path].mtime
           /\ cached_files[path].size = files[path].size
        THEN cached_files[path]
        ELSE [hash |-> files[path].hash, mtime |-> files[path].mtime,
              size |-> files[path].size]]

\* _has_changes_fast(skill_name), on the files
has_changes_fast_files ==
    LET current_hashes ==
            _compute_skill_hash_incremental(skill_files, cache_file.files)
        cached_hashes == cache_file.files
    IN IF ~snapshot_exists THEN TRUE
       ELSE IF ~cache_file.has_files THEN TRUE
       ELSE IF Cardinality(DOMAIN current_hashes)
                 # Cardinality(DOMAIN cached_hashes) THEN TRUE
       ELSE IF DOMAIN current_hashes # DOMAIN cached_hashes THEN TRUE
       ELSE \E rel_path \in DOMAIN current_hashes :
               current_hashes[rel_path].hash # cached_hashes[rel_path].hash

\* One call of _has_changes_fast.
detect ==
    /\ answer = "none"
    /\ ProbeOnly
    /\ answer' = IF has_changes_fast_files THEN "changed" ELSE "unchanged"
    /\ UNCHANGED <<latest, snapshot_exists, cache_file, skill_files>>

\* The skills of the model (hashes up to MaxHash, mtimes and sizes up to
\* MaxStat): d.m with any hash, mtime and size, d/x as saved
\* or gone or without stat, and a file under .git; and the caches: none (or
\* of another version, or without "files"), or entries for d.m and d/x.
MaxHash == 2
MaxStat == 2
DetectFiles ==
    { m @@ x @@ g :
        m \in UNION { [P -> [hash : 0..MaxHash, mtime : 1..MaxStat, size : 1..MaxStat, stat_ok : BOOLEAN]]
                        : P \in SUBSET {PathDotM} },
        x \in UNION { [P -> [hash : {1}, mtime : {1}, size : {1}, stat_ok : BOOLEAN]]
                        : P \in SUBSET {PathDirX} },
        g \in UNION { [P -> [hash : {1}, mtime : {1}, size : {1}, stat_ok : {TRUE}]]
                        : P \in SUBSET {PathGit} } }
DetectCaches ==
    {NoCacheData} \cup
    { [has_files |-> TRUE, files |-> m @@ x] :
        m \in UNION { [P -> [hash : 0..MaxHash, mtime : 1..MaxStat, size : 1..MaxStat]]
                        : P \in SUBSET {PathDotM} },
        x \in UNION { [P -> [hash : 1..MaxHash, mtime : {1}, size : {1}]]
                        : P \in SUBSET {PathDirX} } }

(***************************************************************************)
(* The three enumerations of the files of a tree: _get_skill_files for the *)
(* fingerprint, copytree with ignore_patterns for the staged copy, and     *)
(* get_files of _compare_dirs for the diff.                                *)
(***************************************************************************)
enumerate ==
    /\ ~enumerated.done
    /\ ToolOnly
    /\ enumerated' = [done |-> TRUE,
                      hashed |-> _get_skill_files(dir2),
                      staged |-> DOMAIN copytree(dir2),
                      diffed |-> get_files(skill_path, dir2)]
    /\ UNCHANGED <<skill_path, dpc, temp_dir>>

\* The trees of the model: any of the five paths (c.pyc is a file or a
\* directory), in a skills directory d as skill a, in d as a skill that has
\* the name .git, and as skill a in a skills directory that has that name.
IgnoreDirs ==
    UNION { [P -> { <<"x">> }] :
        P \in { Q \in SUBSET {PathDotM, PathDirX, PathGit, PathPyc, PathPycDir} :
                  ~({PathPyc, PathPycDir} \subseteq Q) } }
SkillRoots ==
    { SkillPath,
      << <<"d">>, <<".", "g", "i", "t">> >>,
      << <<".", "g", "i", "t">>, <<"a">> >> }

(***************************************************************************)
(* diff(skill_name, version), step by step: up to the temporary directory, *)
(* the archive of the tag and its extraction, and the comparison.          *)
(***************************************************************************)
\* A temporary directory that stays when the block is left.
mkdtemp_kept == temp_dir

\* with tempfile.TemporaryDirectory() as temp_dir: whether the directory
\* exists once the block is left, by its end, by return or by sys.exit
TemporaryDirectory_exit == FALSE

\* diff up to "with tempfile.TemporaryDirectory()"; version <<>> is None,
\* fetch_ok the return code of git fetch --tags
diff_start(skill_name, version, fetch_ok) ==
    LET fetched == IF fetch_ok THEN tags \cup remote ELSE tags
        listed == ListTags(skill_name, fetched)
        full_tag == IF version = <<>>
                    THEN IF listed = {} THEN <<>> ELSE sort_last(listed)
                    ELSE IF startswith(version, skill_name \o <<"/">>)
                    THEN version
                    ELSE skill_name \o <<"/">> \o version
    IN
    /\ dpc = "idle"
    /\ last.seq < MaxCmds
    /\ UNCHANGED <<lockVars, restoreVars, stepVars, diffVars>>
    /\ UNCHANGED <<answer, snapshot_exists, cache_file, skill_files>>
    /\ UNCHANGED <<remote, live, index, head, cache, lastCreated, topDeleted,
                   retired, nedits, batch, skill_path, enumerated>>
    /\ IF ~git_dir
       THEN \* Error: Snapshot repository not initialized.  sys.exit(1)
            /\ fetch_ok /\ version = <<>>
            /\ Outcome("diff", skill_name, "exit", "not_initialized", FALSE, 0)
            /\ dpc' = "done"
            /\ UNCHANGED <<tags, latest, temp_dir>>
       ELSE IF live[skill_name] = NoTree
       THEN \* Error: Skill not found.  sys.exit(1)
            /\ fetch_ok /\ version = <<>>
            /\ Outcome("diff", skill_name, "exit", "not_found", FALSE, 0)
            /\ dpc' = "done"
            /\ UNCHANGED <<tags, latest, temp_dir>>
       ELSE IF version = <<>> /\ listed = {}
       THEN \* No snapshots found
            /\ tags' = fetched
            /\ Outcome("diff", skill_name, "return", "no_snapshots", FALSE, 0)
            /\ dpc' = "done"
            /\ UNCHANGED <<latest, temp_dir>>
       ELSE IF full_tag \notin fetched
       THEN \* git rev-parse: Error: Version not found.  sys.exit(1)
            /\ tags' = fetched
            /\ Outcome("diff", skill_name, "exit", "version_not_found", FALSE, 0)
            /\ dpc' = "done"
            /\ UNCHANGED <<latest, temp_dir>>
       ELSE /\ tags' = fetched
            /\ latest' = [skill |-> skill_name, tag |-> full_tag]
            /\ temp_dir' = TRUE
            /\ dpc' = "archive"
            /\ UNCHANGED last

\* git archive --format=zip, the tests of the zip file, and extractall.
\* ok is false when git archive returns non-zero or runs into the timeout,
\* when the zip file is missing or empty, and when it is no zip file; the
\* block is left then.  snapshot is what the tag holds of the skill.
diff_archive(ok, snapshot) ==
    /\ dpc = "archive"
    /\ UNCHANGED <<lockVars, restoreVars, stepVars, probeVars>>
    /\ UNCHANGED <<tags, remote, live, index, head, cache, lastCreated,
                   topDeleted, retired, nedits, batch, skill_path, enumerated>>
    /\ UNCHANGED <<dir2, report, has_diff, compared>>
    /\ IF ok
       THEN /\ dir1' = snapshot
            /\ dpc' = "compare"
            /\ UNCHANGED <<last, temp_dir>>
       ELSE /\ snapshot = NoFiles
            /\ Outcome("diff", latest.skill, "return", "archive_failed", FALSE, 0)
            /\ temp_dir' = TemporaryDirectory_exit
            /\ dpc' = "done"
            /\ UNCHANGED dir1

\* self._compare_dirs(snapshot_skill_path, skill_path), and the end of the
\* block
diff_compare ==
    LET all_files == sorted(get_files(snapshot_skill_path, dir1)
                               \cup get_files(skill_path, dir2))
        lines == CompareLines(dir1, dir2, all_files)
    IN
    /\ dpc = "compare"
    /\ UNCHANGED <<lockVars, restoreVars, stepVars, probeVars>>
    /\ UNCHANGED <<tags, remote, live, index, head, cache, lastCreated,
                   topDeleted, retired, nedits, batch, skill_path, enumerated>>
    /\ compared' = TRUE
    /\ report' = lines
    /\ has_diff' = \E i \in 1..Len(lines) : lines[i][1] # "Error"
    /\ temp_dir' = TemporaryDirectory_exit
    /\ dir1' = IF TemporaryDirectory_exit THEN dir1 ELSE NoFiles
    /\ Outcome("diff", latest.skill, "return", "compared", FALSE, 0)
    /\ dpc' = "done"
    /\ UNCHANGED dir2

\* The version arguments tried with diff: none, v9, v1 and a/v9.
DiffVersions ==
    { <<>>, <<"v", "9">>, <<"v", "1">>, <<"a", "/", "v", "9">> }

DiffNext ==
    \/ \E skill_name \in Skills, version \in DiffVersions, fetch_ok \in BOOLEAN :
          diff_start(skill_name, version, fetch_ok)
    \/ \E ok \in BOOLEAN, snapshot \in CompareDirs : diff_archive(ok, snapshot)
    \/ diff_compare

(***************************************************************************)
(* The specifications.                                                     *)
(***************************************************************************)
\* No invocation runs; the lock file is absent or was left by an invocation
\* that died.  No restore and no save is under way.
Init ==
    /\ clock = 0
    /\ lock \in {NoLock, LockRecord(DeadPid, 0)}
    /\ pc = [p \in Procs |-> "idle"]
    /\ cmd = [p \in Procs |-> "save"]
    /\ inner = [p \in Procs |-> FALSE]
    /\ pending = [p \in Procs |-> 0]
    /\ acq = [p \in Procs |-> "none"]
    /\ held = [p \in Procs |-> FALSE]
    /\ exitKind = [p \in Procs |-> "none"]
    /\ nrel = [p \in Procs |-> 0]
    /\ rpc = "done"
    /\ dest = NoDir /\ backup = NoDir /\ source = NoDir /\ snap = NoDir
    /\ tagExists = FALSE
    /\ branch = "main"
    /\ backup_path = FALSE
    /\ todo = {}
    /\ errors = FALSE
    /\ rout = "none"
    /\ orig = NoDir /\ mainTree = NoDir
    /\ copyFailed = FALSE /\ cleanupFailed = FALSE
    /\ skill_path = SkillPath /\ enumerated = NoEnum
    /\ dpc = "idle" /\ temp_dir = FALSE
    /\ tags = {} /\ remote = {}
    /\ live = [k \in Skills |-> NoTree]
    /\ nedits = 0
    /\ batch = NoBatch
    /\ midsave = NoSave /\ git_dir = TRUE
    /\ dir1 = NoFiles /\ dir2 = NoFiles
    /\ report = <<>> /\ has_diff = FALSE /\ compared = FALSE
    /\ latest = NoLatest /\ answer = "none"
    /\ snapshot_exists = FALSE /\ cache_file = NoCacheData
    /\ skill_files = NoFiles
    /\ index = [k \in Skills |-> 0]
    /\ head = [k \in Skills |-> 0]
    /\ cache = [k \in Skills |-> NoCache]
    /\ last = [seq |-> 0, op |-> "none", skill |-> <<>>, out |-> "none",
               why |-> "none", created |-> FALSE, version |-> 0,
               edits |-> 0]
    /\ lastCreated = [k \in Skills |-> 0]
    /\ topDeleted = [k \in Skills |-> FALSE]
    /\ retired = [k \in Skills |-> {}]

Next ==
    \/ \E p \in Procs, c \in Cmds, n \in 0..MaxBatch : Start(p, c, n)
    \/ \E p \in Procs : Step(p)
    \/ Tick

Spec == Init /\ [][Next]_vars

\* Every call of an invocation returns: a backend command is cut off by its
\* timeout, a file system call returns or raises.
FairSpec == Spec /\ \A p \in Procs : WF_vars(Step(p))


\* restore(skill_name, version) is called: any live tree, any snapshot (the
\* backend records files only, so it holds no empty directory).
RestoreInit ==
    /\ rpc = "network"
    /\ dest \in AllDirs \cup {NoDir}
    /\ orig = dest
    /\ backup = NoDir
    /\ mainTree \in {NoDir} \cup ({dest} \ {Dir({})})
    /\ source = mainTree
    /\ snap \in (AllDirs \ {Dir({})}) \cup {NoDir}
    /\ tagExists \in BOOLEAN
    /\ branch = "main"
    /\ backup_path = FALSE
    /\ todo = {}
    /\ errors = FALSE
    /\ rout = "none"
    /\ copyFailed = FALSE /\ cleanupFailed = FALSE
    /\ skill_path = SkillPath /\ enumerated = NoEnum
    /\ dpc = "idle" /\ temp_dir = FALSE
    /\ clock = 0
    /\ lock = NoLock
    /\ pc = [p \in Procs |-> "idle"]
    /\ cmd = [p \in Procs |-> "save"]
    /\ inner = [p \in Procs |-> FALSE]
    /\ pending = [p \in Procs |-> 0]
    /\ acq = [p \in Procs |-> "none"]
    /\ held = [p \in Procs |-> FALSE]
    /\ exitKind = [p \in Procs |-> "none"]
    /\ nrel = [p \in Procs |-> 0]
    /\ tags = {} /\ remote = {}
    /\ live = [k \in Skills |-> NoTree]
    /\ nedits = 0
    /\ batch = NoBatch
    /\ midsave = NoSave /\ git_dir = TRUE
    /\ dir1 = NoFiles /\ dir2 = NoFiles
    /\ report = <<>> /\ has_diff = FALSE /\ compared = FALSE
    /\ latest = NoLatest /\ answer = "none"
    /\ snapshot_exists = FALSE /\ cache_file = NoCacheData
    /\ skill_files = NoFiles
    /\ index = [k \in Skills |-> 0]
    /\ head = [k \in Skills |-> 0]
    /\ cache = [k \in Skills |-> NoCache]
    /\ last = [seq |-> 0, op |-> "none", skill |-> <<>>, out |-> "none",
               why |-> "none", created |-> FALSE, version |-> 0,
               edits |-> 0]
    /\ lastCreated = [k \in Skills |-> 0]
    /\ topDeleted = [k \in Skills |-> FALSE]
    /\ retired = [k \in Skills |-> {}]

RestoreSpec == RestoreInit /\ [][RestoreNext]_vars

\* An initialised snapshot repository without tags or with the seed tags,
\* in step with its remote, nothing committed yet, and a live tree for each
\* skill.
VersionInit ==
    /\ tags \in {{}, SeedTags}
    /\ remote = tags
    /\ live = [k \in Skills |-> [c |-> 1, s |-> 1]]
    /\ nedits = 0
    /\ batch = NoBatch
    /\ midsave = NoSave /\ git_dir = TRUE
    /\ dir1 = NoFiles /\ dir2 = NoFiles
    /\ report = <<>> /\ has_diff = FALSE /\ compared = FALSE
    /\ latest = NoLatest /\ answer = "none"
    /\ snapshot_exists = FALSE /\ cache_file = NoCacheData
    /\ skill_files = NoFiles
    /\ index = [k \in Skills |-> 0]
    /\ head = [k \in Skills |-> 0]
    /\ cache = [k \in Skills |-> NoCache]
    /\ last = [seq |-> 0, op |-> "none", skill |-> <<>>, out |-> "none",
               why |-> "none", created |-> FALSE, version |-> 0,
               edits |-> 0]
    /\ lastCreated = [k \in Skills |-> 0]
    /\ topDeleted = [k \in Skills |-> FALSE]
    /\ retired = [k \in Skills |-> {}]
    /\ clock = 0
    /\ lock = NoLock
    /\ pc = [p \in Procs |-> "idle"]
    /\ cmd = [p \in Procs |-> "save"]
    /\ inner = [p \in Procs |-> FALSE]
    /\ pending = [p \in Procs |-> 0]
    /\ acq = [p \in Procs |-> "none"]
    /\ held = [p \in Procs |-> FALSE]
    /\ exitKind = [p \in Procs |-> "none"]
    /\ nrel = [p \in Procs |-> 0]
    /\ rpc = "done"
    /\ dest = NoDir /\ backup = NoDir /\ source = NoDir /\ snap = NoDir
    /\ tagExists = FALSE
    /\ branch = "main"
    /\ backup_path = FALSE
    /\ todo = {}
    /\ errors = FALSE
    /\ rout = "none"
    /\ orig = NoDir /\ mainTree = NoDir
    /\ copyFailed = FALSE /\ cleanupFailed = FALSE
    /\ skill_path = SkillPath /\ enumerated = NoEnum
    /\ dpc = "idle" /\ temp_dir = FALSE

VersionSpec == VersionInit /\ [][VersionNext]_vars

FrameSpec == VersionInit /\ [][FrameNext]_vars

\* The allocation of versions over every set of seed tags: saves only.
AllocatorInit ==
    /\ tags \in SUBSET SeedTags
    /\ remote = tags
    /\ live = [k \in Skills |-> [c |-> 1, s |-> 1]]
    /\ nedits = 0
    /\ batch = NoBatch
    /\ midsave = NoSave /\ git_dir = TRUE
    /\ dir1 = NoFiles /\ dir2 = NoFiles
    /\ report = <<>> /\ has_diff = FALSE /\ compared = FALSE
    /\ latest = NoLatest /\ answer = "none"
    /\ snapshot_exists = FALSE /\ cache_file = NoCacheData
    /\ skill_files = NoFiles
    /\ index = [k \in Skills |-> 0]
    /\ head = [k \in Skills |-> 0]
    /\ cache = [k \in Skills |-> NoCache]
    /\ last = [seq |-> 0, op |-> "none", skill |-> <<>>, out |-> "none",
               why |-> "none", created |-> FALSE, version |-> 0,
               edits |-> 0]
    /\ lastCreated = [k \in Skills |-> 0]
    /\ topDeleted = [k \in Skills |-> FALSE]
    /\ retired = [k \in Skills |-> {}]
    /\ clock = 0
    /\ lock = NoLock
    /\ pc = [p \in Procs |-> "idle"]
    /\ cmd = [p \in Procs |-> "save"]
    /\ inner = [p \in Procs |-> FALSE]
    /\ pending = [p \in Procs |-> 0]
    /\ acq = [p \in Procs |-> "none"]
    /\ held = [p \in Procs |-> FALSE]
    /\ exitKind = [p \in Procs |-> "none"]
    /\ nrel = [p \in Procs |-> 0]
    /\ rpc = "done"
    /\ dest = NoDir /\ backup = NoDir /\ source = NoDir /\ snap = NoDir
    /\ tagExists = FALSE
    /\ branch = "main"
    /\ backup_path = FALSE
    /\ todo = {}
    /\ errors = FALSE
    /\ rout = "none"
    /\ orig = NoDir /\ mainTree = NoDir
    /\ copyFailed = FALSE /\ cleanupFailed = FALSE
    /\ skill_path = SkillPath /\ enumerated = NoEnum
    /\ dpc = "idle" /\ temp_dir = FALSE

AllocatorNext ==
    \E skill_name \in Skills,
       sync_remote, skip_fast_check, network, commit_ok, tag_ok, push_ok \in BOOLEAN :
       /\ _save_impl(skill_name, sync_remote, skip_fast_check, network,
                     commit_ok, tag_ok, push_ok)
       /\ UNCHANGED batch

AllocatorSpec == AllocatorInit /\ [][AllocatorNext]_vars

\* The commands one after the other, on a repository without tags or with
\* one tag of each tree, with the lock free or held by another invocation.
CmdSeedTags == { <<"a", "/", "v", "1">>, SELF_SKILL_NAME \o <<"/", "v", "1">> }

CommandInit ==
    /\ git_dir \in BOOLEAN
    /\ tags \in IF git_dir THEN {{}, CmdSeedTags} ELSE {{}}
    /\ remote = tags
    /\ live = [d \in CmdDirs |-> [c |-> 1, s |-> 1]]
    /\ nedits = 0
    /\ batch = NoBatch
    /\ midsave = NoSave
    /\ dir1 = NoFiles /\ dir2 = NoFiles
    /\ report = <<>> /\ has_diff = FALSE /\ compared = FALSE
    /\ latest = NoLatest /\ answer = "none"
    /\ snapshot_exists = FALSE /\ cache_file = NoCacheData
    /\ skill_files = NoFiles
    /\ index = [d \in CmdDirs |-> 0]
    /\ head = [d \in CmdDirs |-> 0]
    /\ cache = [k \in CmdNames |-> NoCache]
    /\ last = [seq |-> 0, op |-> "none", skill |-> <<>>, out |-> "none",
               why |-> "none", created |-> FALSE, version |-> 0,
               edits |-> 0]
    /\ lastCreated = [k \in CmdNames |-> 0]
    /\ topDeleted = [k \in CmdNames |-> FALSE]
    /\ retired = [k \in CmdNames |-> {}]
    /\ clock = 0
    /\ lock \in {NoLock, LockRecord("p1", 0)}
    /\ pc = [p \in Procs |-> "idle"]
    /\ cmd = [p \in Procs |-> "save"]
    /\ inner = [p \in Procs |-> FALSE]
    /\ pending = [p \in Procs |-> 0]
    /\ acq = [p \in Procs |-> "none"]
    /\ held = [p \in Procs |-> FALSE]
    /\ exitKind = [p \in Procs |-> "none"]
    /\ nrel = [p \in Procs |-> 0]
    /\ rpc = "done"
    /\ dest = NoDir /\ backup = NoDir /\ source = NoDir /\ snap = NoDir
    /\ tagExists = FALSE
    /\ branch = "main"
    /\ backup_path = FALSE
    /\ todo = {}
    /\ errors = FALSE
    /\ rout = "none"
    /\ orig = NoDir /\ mainTree = NoDir
    /\ copyFailed = FALSE /\ cleanupFailed = FALSE
    /\ skill_path = SkillPath /\ enumerated = NoEnum
    /\ dpc = "idle" /\ temp_dir = FALSE

CommandSpec == CommandInit /\ [][CommandNext]_vars

\* Saves in two steps, on a repository as under VersionSpec.
InterleavedInit ==
    /\ tags \in {{}, SeedTags}
    /\ remote = tags
    /\ live = [k \in Skills |-> [c |-> 1, s |-> 1]]
    /\ nedits = 0
    /\ batch = NoBatch
    /\ midsave = NoSave /\ git_dir = TRUE
    /\ dir1 = NoFiles /\ dir2 = NoFiles
    /\ report = <<>> /\ has_diff = FALSE /\ compared = FALSE
    /\ latest = NoLatest /\ answer = "none"
    /\ snapshot_exists = FALSE /\ cache_file = NoCacheData
    /\ skill_files = NoFiles
    /\ index = [k \in Skills |-> 0]
    /\ head = [k \in Skills |-> 0]
    /\ cache = [k \in Skills |-> NoCache]
    /\ last = [seq |-> 0, op |-> "none", skill |-> <<>>, out |-> "none",
               why |-> "none", created |-> FALSE, version |-> 0,
               edits |-> 0]
    /\ lastCreated = [k \in Skills |-> 0]
    /\ topDeleted = [k \in Skills |-> FALSE]
    /\ retired = [k \in Skills |-> {}]
    /\ clock = 0
    /\ lock = NoLock
    /\ pc = [p \in Procs |-> "idle"]
    /\ cmd = [p \in Procs |-> "save"]
    /\ inner = [p \in Procs |-> FALSE]
    /\ pending = [p \in Procs |-> 0]
    /\ acq = [p \in Procs |-> "none"]
    /\ held = [p \in Procs |-> FALSE]
    /\ exitKind = [p \in Procs |-> "none"]
    /\ nrel = [p \in Procs |-> 0]
    /\ rpc = "done"
    /\ dest = NoDir /\ backup = NoDir /\ source = NoDir /\ snap = NoDir
    /\ tagExists = FALSE
    /\ branch = "main"
    /\ backup_path = FALSE
    /\ todo = {}
    /\ errors = FALSE
    /\ rout = "none"
    /\ orig = NoDir /\ mainTree = NoDir
    /\ copyFailed = FALSE /\ cleanupFailed = FALSE
    /\ skill_path = SkillPath /\ enumerated = NoEnum
    /\ dpc = "idle" /\ temp_dir = FALSE

InterleavedSpec == InterleavedInit /\ [][InterleavedNext]_vars

\* _compare_dirs on every pair of directories of the model.
CompareInit ==
    /\ tags = {}
    /\ remote = tags
    /\ live = [k \in Skills |-> [c |-> 1, s |-> 1]]
    /\ nedits = 0
    /\ batch = NoBatch
    /\ midsave = NoSave /\ git_dir = TRUE
    /\ \E a, b \in CompareDirs, i, j \in CompareIgnored :
          dir1 = a @@ i /\ dir2 = b @@ j
    /\ report = <<>> /\ has_diff = FALSE /\ compared = FALSE
    /\ latest = NoLatest /\ answer = "none"
    /\ snapshot_exists = FALSE /\ cache_file = NoCacheData
    /\ skill_files = NoFiles
    /\ index = [k \in Skills |-> 0]
    /\ head = [k \in Skills |-> 0]
    /\ cache = [k \in Skills |-> NoCache]
    /\ last = [seq |-> 0, op |-> "none", skill |-> <<>>, out |-> "none",
               why |-> "none", created |-> FALSE, version |-> 0,
               edits |-> 0]
    /\ lastCreated = [k \in Skills |-> 0]
    /\ topDeleted = [k \in Skills |-> FALSE]
    /\ retired = [k \in Skills |-> {}]
    /\ clock = 0
    /\ lock = NoLock
    /\ pc = [p \in Procs |-> "idle"]
    /\ cmd = [p \in Procs |-> "save"]
    /\ inner = [p \in Procs |-> FALSE]
    /\ pending = [p \in Procs |-> 0]
    /\ acq = [p \in Procs |-> "none"]
    /\ held = [p \in Procs |-> FALSE]
    /\ exitKind = [p \in Procs |-> "none"]
    /\ nrel = [p \in Procs |-> 0]
    /\ rpc = "done"
    /\ dest = NoDir /\ backup = NoDir /\ source = NoDir /\ snap = NoDir
    /\ tagExists = FALSE
    /\ branch = "main"
    /\ backup_path = FALSE
    /\ todo = {}
    /\ errors = FALSE
    /\ rout = "none"
    /\ orig = NoDir /\ mainTree = NoDir
    /\ copyFailed = FALSE /\ cleanupFailed = FALSE
    /\ skill_path = SkillPath /\ enumerated = NoEnum
    /\ dpc = "idle" /\ temp_dir = FALSE

CompareNext == _compare_dirs \/ diff_after_save
CompareSpec == CompareInit /\ [][CompareNext]_vars

\* diff without a version, for every set of tags of the model.
LatestInit ==
    /\ tags \in SUBSET LatestSeedTags
    /\ remote = tags
    /\ live = [k \in Skills |-> [c |-> 1, s |-> 1]]
    /\ nedits = 0
    /\ batch = NoBatch
    /\ midsave = NoSave /\ git_dir = TRUE
    /\ dir1 = NoFiles /\ dir2 = NoFiles
    /\ report = <<>> /\ has_diff = FALSE /\ compared = FALSE
    /\ latest = NoLatest /\ answer = "none"
    /\ snapshot_exists = FALSE /\ cache_file = NoCacheData
    /\ skill_files = NoFiles
    /\ index = [k \in Skills |-> 0]
    /\ head = [k \in Skills |-> 0]
    /\ cache = [k \in Skills |-> NoCache]
    /\ last = [seq |-> 0, op |-> "none", skill |-> <<>>, out |-> "none",
               why |-> "none", created |-> FALSE, version |-> 0,
               edits |-> 0]
    /\ lastCreated = [k \in Skills |-> 0]
    /\ topDeleted = [k \in Skills |-> FALSE]
    /\ retired = [k \in Skills |-> {}]
    /\ clock = 0
    /\ lock = NoLock
    /\ pc = [p \in Procs |-> "idle"]
    /\ cmd = [p \in Procs |-> "save"]
    /\ inner = [p \in Procs |-> FALSE]
    /\ pending = [p \in Procs |-> 0]
    /\ acq = [p \in Procs |-> "none"]
    /\ held = [p \in Procs |-> FALSE]
    /\ exitKind = [p \in Procs |-> "none"]
    /\ nrel = [p \in Procs |-> 0]
    /\ rpc = "done"
    /\ dest = NoDir /\ backup = NoDir /\ source = NoDir /\ snap = NoDir
    /\ tagExists = FALSE
    /\ branch = "main"
    /\ backup_path = FALSE
    /\ todo = {}
    /\ errors = FALSE
    /\ rout = "none"
    /\ orig = NoDir /\ mainTree = NoDir
    /\ copyFailed = FALSE /\ cleanupFailed = FALSE
    /\ skill_path = SkillPath /\ enumerated = NoEnum
    /\ dpc = "idle" /\ temp_dir = FALSE

LatestNext == \E skill_name \in LatestSkills : diff_resolve(skill_name)
LatestSpec == LatestInit /\ [][LatestNext]_vars

\* _has_changes_fast, for every skill and cache of the model.
DetectInit ==
    /\ tags = {}
    /\ remote = tags
    /\ live = [k \in Skills |-> [c |-> 1, s |-> 1]]
    /\ nedits = 0
    /\ batch = NoBatch
    /\ midsave = NoSave /\ git_dir = TRUE
    /\ dir1 = NoFiles /\ dir2 = NoFiles
    /\ report = <<>> /\ has_diff = FALSE /\ compared = FALSE
    /\ latest = NoLatest /\ answer = "none"
    /\ snapshot_exists \in BOOLEAN /\ cache_file \in DetectCaches
    /\ skill_files \in DetectFiles
    /\ index = [k \in Skills |-> 0]
    /\ head = [k \in Skills |-> 0]
    /\ cache = [k \in Skills |-> NoCache]
    /\ last = [seq |-> 0, op |-> "none", skill |-> <<>>, out |-> "none",
               why |-> "none", created |-> FALSE, version |-> 0,
               edits |-> 0]
    /\ lastCreated = [k \in Skills |-> 0]
    /\ topDeleted = [k \in Skills |-> FALSE]
    /\ retired = [k \in Skills |-> {}]
    /\ clock = 0
    /\ lock = NoLock
    /\ pc = [p \in Procs |-> "idle"]
    /\ cmd = [p \in Procs |-> "save"]
    /\ inner = [p \in Procs |-> FALSE]
    /\ pending = [p \in Procs |-> 0]
    /\ acq = [p \in Procs |-> "none"]
    /\ held = [p \in Procs |-> FALSE]
    /\ exitKind = [p \in Procs |-> "none"]
    /\ nrel = [p \in Procs |-> 0]
    /\ rpc = "done"
    /\ dest = NoDir /\ backup = NoDir /\ source = NoDir /\ snap = NoDir
    /\ tagExists = FALSE
    /\ branch = "main"
    /\ backup_path = FALSE
    /\ todo = {}
    /\ errors = FALSE
    /\ rout = "none"
    /\ orig = NoDir /\ mainTree = NoDir
    /\ copyFailed = FALSE /\ cleanupFailed = FALSE
    /\ skill_path = SkillPath /\ enumerated = NoEnum
    /\ dpc = "idle" /\ temp_dir = FALSE

DetectNext == detect
DetectSpec == DetectInit /\ [][DetectNext]_vars

\* The enumerations, for every tree and every place of the model.
IgnoreInit ==
    /\ tags = {}
    /\ remote = tags
    /\ live = [k \in Skills |-> [c |-> 1, s |-> 1]]
    /\ nedits = 0
    /\ batch = NoBatch
    /\ midsave = NoSave /\ git_dir = TRUE
    /\ dir1 = NoFiles /\ dir2 \in IgnoreDirs
    /\ report = <<>> /\ has_diff = FALSE /\ compared = FALSE
    /\ latest = NoLatest /\ answer = "none"
    /\ snapshot_exists = FALSE /\ cache_file = NoCacheData
    /\ skill_files = NoFiles
    /\ index = [k \in Skills |-> 0]
    /\ head = [k \in Skills |-> 0]
    /\ cache = [k \in Skills |-> NoCache]
    /\ last = [seq |-> 0, op |-> "none", skill |-> <<>>, out |-> "none",
               why |-> "none", created |-> FALSE, version |-> 0,
               edits |-> 0]
    /\ lastCreated = [k \in Skills |-> 0]
    /\ topDeleted = [k \in Skills |-> FALSE]
    /\ retired = [k \in Skills |-> {}]
    /\ clock = 0
    /\ lock = NoLock
    /\ pc = [p \in Procs |-> "idle"]
    /\ cmd = [p \in Procs |-> "save"]
    /\ inner = [p \in Procs |-> FALSE]
    /\ pending = [p \in Procs |-> 0]
    /\ acq = [p \in Procs |-> "none"]
    /\ held = [p \in Procs |-> FALSE]
    /\ exitKind = [p \in Procs |-> "none"]
    /\ nrel = [p \in Procs |-> 0]
    /\ rpc = "done"
    /\ dest = NoDir /\ backup = NoDir /\ source = NoDir /\ snap = NoDir
    /\ tagExists = FALSE
    /\ branch = "main"
    /\ backup_path = FALSE
    /\ todo = {}
    /\ errors = FALSE
    /\ rout = "none"
    /\ orig = NoDir /\ mainTree = NoDir
    /\ copyFailed = FALSE /\ cleanupFailed = FALSE
    /\ skill_path \in SkillRoots /\ enumerated = NoEnum
    /\ dpc = "idle" /\ temp_dir = FALSE

IgnoreNext == enumerate
IgnoreSpec == IgnoreInit /\ [][IgnoreNext]_vars

\* diff of skill a, and of a skill that has no live tree, against a
\* repository without tags or with the seed tags (the remote has them),
\* with the lock free or held by another invocation.
DiffInit ==
    /\ git_dir \in BOOLEAN
    /\ tags \in IF git_dir THEN {{}, SeedTags} ELSE {{}}
    /\ remote = SeedTags
    /\ live = [k \in Skills |-> IF k = <<"a">> THEN [c |-> 1, s |-> 1] ELSE NoTree]
    /\ nedits = 0
    /\ batch = NoBatch
    /\ midsave = NoSave
    /\ dir1 = NoFiles /\ dir2 \in CompareDirs
    /\ report = <<>> /\ has_diff = FALSE /\ compared = FALSE
    /\ latest = NoLatest /\ answer = "none"
    /\ snapshot_exists = FALSE /\ cache_file = NoCacheData
    /\ skill_files = NoFiles
    /\ index = [k \in Skills |-> 0]
    /\ head = [k \in Skills |-> 0]
    /\ cache = [k \in Skills |-> NoCache]
    /\ last = [seq |-> 0, op |-> "none", skill |-> <<>>, out |-> "none",
               why |-> "none", created |-> FALSE, version |-> 0,
               edits |-> 0]
    /\ lastCreated = [k \in Skills |-> 0]
    /\ topDeleted = [k \in Skills |-> FALSE]
    /\ retired = [k \in Skills |-> {}]
    /\ clock = 0
    /\ lock \in {NoLock, LockRecord("p1", 0)}
    /\ pc = [p \in Procs |-> "idle"]
    /\ cmd = [p \in Procs |-> "save"]
    /\ inner = [p \in Procs |-> FALSE]
    /\ pending = [p \in Procs |-> 0]
    /\ acq = [p \in Procs |-> "none"]
    /\ held = [p \in Procs |-> FALSE]
    /\ exitKind = [p \in Procs |-> "none"]
    /\ nrel = [p \in Procs |-> 0]
    /\ rpc = "done"
    /\ dest = NoDir /\ backup = NoDir /\ source = NoDir /\ snap = NoDir
    /\ tagExists = FALSE
    /\ branch = "main"
    /\ backup_path = FALSE
    /\ todo = {}
    /\ errors = FALSE
    /\ rout = "none"
    /\ orig = NoDir /\ mainTree = NoDir
    /\ copyFailed = FALSE /\ cleanupFailed = FALSE
    /\ skill_path = SkillPath /\ enumerated = NoEnum
    /\ dpc = "idle" /\ temp_dir = FALSE

DiffSpec == DiffInit /\ [][DiffNext]_vars

(***************************************************************************)
(* Claims about the lock protocol.                                         *)
(***************************************************************************)

\* Invocation p took a step.
Stepped(p) ==
    <<pc[p], inner[p], pending[p]>>' # <<pc[p], inner[p], pending[p]>>

\* A call of _release_lock by p returns in this step.
ReleaseReturned(p) ==
    /\ Stepped(p)
    /\ \/ pc[p] = "rel_exists" /\ ~LockExists
       \/ pc[p] = "rel_unlink"

\* C1 (mutual exclusion): at most one invocation at a time is between its
\* successful acquire() and its own release().
C1_MutualExclusion ==
    \A p, q \in Procs : (p # q) => ~(held[p] /\ held[q])

\* C7 (guaranteed release): an invocation whose acquire() succeeded
\* terminates, and whenever an invocation has terminated (by return, by an
\* exception or by sys.exit) no lock record written by it is left.
C7_GuaranteedRelease ==
    /\ [](\A p \in Procs : pc[p] = "idle" => lock.holder # p)
    /\ \A p \in Procs : held[p] ~> (pc[p] = "idle" /\ ~held[p])

\* An invocation that held the lock has left through sys.exit and the lock
\* file is gone.
C7_Witness ==
    \E p \in Procs :
        /\ pc[p] = "idle"
        /\ acq[p] = "true"
        /\ exitKind[p] = "exit"
        /\ nrel[p] > 0
        /\ ~LockExists

\* What acquire() does when it finds a record that is not stale, and when it
\* finds none.
AcquireCalls ==
    \A p \in Procs :
        /\ (pc[p] = "acq_stat" /\ LockExists /\ lock_age <= StaleAge /\ Stepped(p))
              => (acq'[p] = "false" /\ lock' = lock)
        /\ (pc[p] = "acq_exists" /\ ~LockExists /\ Stepped(p))
              => pc'[p] = "acq_write"
        /\ (pc[p] = "acq_write" /\ Stepped(p))
              => (acq'[p] = "true" /\ lock' = [holder |-> p, mtime |-> clock])

\* The lock file is removed in this step.
LockRemoved == LockExists /\ ~LockExists'

AcquireFailed(p) ==
    Stepped(p) /\ pc[p] \in {"acq_stat", "acq_unlink"} /\ acq'[p] = "false"

\* C9 (stale-lock reclamation): acquire() goes on to replace a record it
\* finds older than 600 seconds, removes it and returns true with its own
\* record in place; it returns false for a record of 600 seconds or less; and
\* no acquire() returns false while the lock file is older than 600 seconds,
\* so a lock left behind blocks for at most 600 seconds.
C9_StaleReclamation ==
    [][\A p \in Procs :
         /\ (pc[p] = "acq_stat" /\ LockExists /\ lock_age > StaleAge /\ Stepped(p))
               => (pc'[p] = "acq_unlink" /\ lock' = lock)
         /\ (pc[p] = "acq_unlink" /\ LockExists /\ Stepped(p))
               => (pc'[p] = "acq_write" /\ ~LockExists')
         /\ (pc[p] = "acq_write" /\ Stepped(p))
               => (acq'[p] = "true" /\ lock' = [holder |-> p, mtime |-> clock])
         /\ (pc[p] = "acq_stat" /\ LockExists /\ lock_age <= StaleAge /\ Stepped(p))
               => (acq'[p] = "false" /\ lock' = lock)
         /\ AcquireFailed(p) => ~(LockExists /\ lock_age > StaleAge)]_vars

\* An invocation has replaced the record, 700 seconds old, of an invocation
\* that died.
C9_Witness ==
    \E p \in Procs :
        /\ acq[p] = "true"
        /\ lock = [holder |-> p, mtime |-> 7 * TickSeconds]
        /\ pc[p] = "body"

\* C10 (release is idempotent): when release() returns the lock record is
\* gone, whoever wrote it; a release() that finds no record changes nothing
\* and raises nothing (the invocation ends as its try block ended), so a
\* second release() leaves the state of the first.
C10_ReleaseIdempotent ==
    [][\A p \in Procs :
         ReleaseReturned(p) =>
            /\ lock' = NoLock
            /\ (~LockExists => lock' = lock)
            /\ (~inner[p] => (pc'[p] = "idle" /\ exitKind'[p] = exitKind[p]))]_vars

\* backup_all has called release() twice in a row (the save it ran left by
\* sys.exit): the second call found no record.
C10_Witness ==
    \E p \in Procs :
        /\ pc[p] = "idle"
        /\ cmd[p] = "backup_all"
        /\ exitKind[p] = "exit"
        /\ nrel[p] = 2
        /\ ~LockExists


(***************************************************************************)
(* Claims about restore (checked under RestoreSpec).                       *)
(***************************************************************************)

\* C2 (restore rollback): when a restore whose copy step failed after the
\* live tree was moved aside has finished, the destination holds exactly
\* the tree it held before the restore, nothing is left at the backup path
\* and the failure of the copy is raised to the caller.
C2_RestoreRollback ==
    (rpc = "done" /\ copyFailed /\ backup_path) =>
        /\ dest = orig
        /\ dest.exists
        /\ backup = NoDir
        /\ rout = "raise"

\* A restore over a non-empty live tree finished after one of its file
\* copies failed.
C2_Witness ==
    /\ rpc = "done"
    /\ copyFailed /\ errors /\ backup_path
    /\ orig.files # {}
    /\ snap # orig
    /\ dest = orig
    /\ rout = "raise"

SaveCreates(k) ==
    /\ last'.seq = last.seq + 1
    /\ last'.op = "save"
    /\ last'.skill = k
    /\ last'.created

\* The numbers a tag name can carry, each with the ways to write it: as
\* str writes it and, up to 9, with a leading zero.
Numerals ==
    { <<str(n), n>> : n \in 0..(12 + MaxCmds) }
    \cup { <<(<<"0">> \o str(n)), n>> : n \in 0..9 }

\* The numbers N of the tags in T that are exactly k/v<digits>.
TagNumbers(k, T) == { p[2] : p \in { q \in Numerals : TagPrefix(k) \o q[1] \in T } }

\* C4 (version monotonicity): a save of a tree that reports created=true
\* reports a version greater than the one reported by the previous such
\* save of that tree, whatever tags other than the highest were deleted in
\* between.  (Saves that follow the deletion of the highest tag are left
\* out: without them the statement is weaker than the claim.)
C4_VersionMonotonic ==
    [][\A k \in Skills :
          (SaveCreates(k) /\ lastCreated[k] # 0 /\ ~topDeleted[k])
              => last'.version > lastCreated[k]]_vars

C6_NextVersion ==
    /\ [](\A k \in Skills : next_ver(k, tags) = 1 + Max({0} \cup TagNumbers(k, tags)))
    /\ [][\A k \in Skills :
             SaveCreates(k) =>
                 last'.version = 1 + Max({0} \cup TagNumbers(k, tags \cup remote))]_vars

\* A save of skill a allocated v10 beside a/v9, a/v02 and every malformed
\* and foreign seed tag.
C6_Witness ==
    /\ last.op = "save" /\ last.created
    /\ last.skill = <<"a">>
    /\ last.version = 10
    /\ SeedTags \subseteq tags
    /\ <<"a", "/", "v", "1", "0">> \in tags

(***************************************************************************)
(* Self-protection.                                                        *)
(***************************************************************************)
\* A step that is a command (or a round of backup_all) ending.
CommandEnds == last'.seq # last.seq

\* The tags of the reserved name.
SelfTags(T) == { t \in T : startswith(t, SELF_SKILL_NAME \o <<"/">>) }

\* C11: a save, restore or delete that is given the reserved name is
\* rejected with the lock, the tags, the staged copies, the commits, the
\* cache and the live trees as they were; and no command, backup_all
\* included, ever changes the staged copy, the commit, the tags or the live
\* tree of the reserved name.
C11_SelfProtection ==
    [][CommandEnds =>
         /\ (last'.skill = SELF_SKILL_NAME /\ last'.op # "backup_all" =>
               /\ last'.why = "self"
               /\ last'.out \in {"raise", "exit"}
               /\ UNCHANGED <<lock, tags, remote, index, head, cache, live>>)
         /\ index'[SELF_SKILL_NAME] = index[SELF_SKILL_NAME]
         /\ head'[SELF_SKILL_NAME] = head[SELF_SKILL_NAME]
         /\ live'[SELF_SKILL_NAME] = live[SELF_SKILL_NAME]
         /\ SelfTags(tags') = SelfTags(tags)
         /\ SelfTags(remote') = SelfTags(remote)]_vars

(***************************************************************************)
(* Change detection and the hash cache.                                    *)
(***************************************************************************)
\* C12: for a tree that is there, _has_changes_fast answers true whenever
\* the tree has no snapshot (no tag of its own, here or on the remote), and
\* whenever its cache file is absent or of another format version.
C12_ChangedWhenNew ==
    \A k \in Skills :
       (/\ live[k] # NoTree
        /\ \/ ListTags(k, tags \cup remote) = {}
           \/ cache[k].kind \in {"absent", "version"})
       => ~_has_changes_fast_raises(k) /\ _has_changes_fast(k)

\* C13: whenever _has_changes_fast answers false for a tree, the content of
\* the tree hashes to what the cache recorded at its last update, whatever
\* the modification time and size of its files are.
C13_DetectionSound ==
    \A k \in Skills :
       (/\ live[k] # NoTree
        /\ ~_has_changes_fast_raises(k)
        /\ ~_has_changes_fast(k))
       => cache[k].kind = "ok" /\ cache[k].hash = live[k].c

\* C14: a cache file that is absent, does not parse, is of another format
\* version or is not built as the engine builds it is loaded as the empty
\* cache, and neither _has_changes_fast nor save raises because of it; a
\* cache file the engine wrote is loaded as it was written.
C14_CacheLoading ==
    /\ last.why # "cache_error"
    /\ \A k \in Skills :
          /\ ~_load_cache_raises(k)
          /\ ~_has_changes_fast_raises(k)
          /\ (cache[k].kind # "ok" => _load_cache(k) = NoCache)
          /\ (cache[k].kind = "ok" => _load_cache(k) = cache[k])

(***************************************************************************)
(* Saves.                                                                  *)
(***************************************************************************)
\* The step is a save of k that follows a save of k which returned, with
\* nothing changed in the file system in between.
SavedTwice(k) ==
    /\ last.op = "save" /\ last.skill = k /\ last.out = "return"
    /\ last.edits = nedits
    /\ last'.seq = last.seq + 1
    /\ last'.op = "save" /\ last'.skill = k

\* C15: a save of a tree that follows a save of the same tree which ended
\* without error, with no change in the file system in between, reports
\* created = false and adds no tag.
C15_SecondSaveIsNoOp ==
    [][\A k \in Skills :
         SavedTwice(k) =>
            /\ last'.created = FALSE
            /\ ListTags(k, tags') \subseteq ListTags(k, tags \cup remote)
            /\ ListTags(k, remote') = ListTags(k, remote)]_vars

\* The step is a save of k that ends with outcome why.
SaveEnds(k, why) ==
    /\ last'.seq = last.seq + 1
    /\ last'.op = "save" /\ last'.skill = k /\ last'.why = why

\* C16: a save whose staged content is identical to the last commit reports
\* created = false, makes no commit, adds no tag (the tags are those that
\* were there or were fetched, so that the next allocation is the same
\* number), pushes nothing, and still rewrites the cache of the tree from
\* the live tree.
C16_StagedIdenticalNoOp ==
    [][\A k \in Skills :
         SaveEnds(k, "staged_identical") =>
            /\ last'.created = FALSE /\ last'.out = "return"
            /\ head' = head
            /\ remote' = remote
            /\ tags' \in {tags, tags \cup remote}
            /\ lastCreated' = lastCreated
            /\ cache'[k] = [kind |-> "ok", hash |-> live[k].c, s |-> live[k].s]]_vars

\* A save that came after a change in the file system found its staged
\* content identical to the commit, and the cache is that of the live tree.
C16_Witness ==
    \E k \in Skills :
       /\ last.op = "save" /\ last.skill = k /\ last.why = "staged_identical"
       /\ last.created = FALSE
       /\ last.edits = 1
       /\ head[k] = live[k].c
       /\ cache[k] = [kind |-> "ok", hash |-> live[k].c, s |-> live[k].s]

\* C17: a save that reports created = true with version N leaves the commit
\* of the tree's staged copy and the tag T/vN in the repository and on the
\* remote: a failure of the commit, of the tag or of the push is an error
\* and not a created snapshot.
C17_CreatedImpliesRecorded ==
    [][\A k \in Skills :
         SaveCreates(k) =>
            /\ head'[k] = live[k].c
            /\ index'[k] = live[k].c
            /\ FullTag(k, last'.version) \in tags'
            /\ FullTag(k, last'.version) \in remote']_vars

(***************************************************************************)
(* backup_all.                                                             *)
(***************************************************************************)
\* The step is the round of backup_all's loop for the tree d.
BatchRound(d) == batch.active /\ d \in batch.todo /\ d \notin batch'.todo

\* C18: backup_all saves every tree that its pre-scan found changed: the
\* round of a tree replaces its staged copy by the live tree and gets as
\* far as the commit (which creates the snapshot unless the backend fails);
\* and whatever the round's outcome, the batch goes on.
C18_BatchSavesChanged ==
    [][\A d \in CmdDirs :
         BatchRound(d) =>
            /\ batch'.active /\ batch'.todo = batch.todo \ {d}
            /\ last'.op = "save" /\ last'.skill = d
            /\ index'[d] = live[d].c
            /\ last'.why \in {"created", "staged_identical", "commit_failed"}]_vars

\* C19: from the acquire of backup_all to its final release, no step of the
\* batch itself, the saves of its trees included, removes, replaces or
\* writes the lock record, and no save of a tree calls _acquire_lock with
\* success or releases.
C19_BatchHoldsLock ==
    [][\A p \in Procs :
         (Stepped(p) /\ cmd[p] = "backup_all" /\ held[p]) =>
            /\ (lock' # lock => ~inner[p] /\ pc[p] = "rel_unlink")
            /\ (inner[p] => acq'[p] # "true")]_vars

(***************************************************************************)
(* The size cap.                                                           *)
(***************************************************************************)
\* C20: a save that stages a tree (and then finds it identical, fails to
\* commit it, or commits and tags it) does so only for a tree of at most
\* MAX_SKILL_SIZE_BYTES bytes.
C20_SizeCap ==
    [][\A k \in Skills :
         (\E why \in {"staged_identical", "commit_failed", "created"} :
             SaveEnds(k, why))
         => _get_dir_size(live[k]) <= MAX_SKILL_SIZE_BYTES]_vars

(***************************************************************************)
(* The cache and the commit.                                               *)
(***************************************************************************)
\* C21: when a save of a tree ends with the cache updated (a snapshot was
\* created, or the staged copy was identical to the last commit), the cache
\* records the hash of the content this save staged, and of the commit when
\* it made one, whatever was done to the live tree after the copy.
C21_CacheMatchesStaged ==
    [][\A k \in Skills :
         (SaveEnds(k, "created") \/ SaveEnds(k, "staged_identical")) =>
            /\ cache'[k].kind = "ok"
            /\ cache'[k].hash = index'[k]
            /\ head'[k] = index'[k]]_vars

(***************************************************************************)
(* Restore and its snapshot.                                               *)
(***************************************************************************)
\* C22: when restore has ended with success, the destination holds exactly
\* the tree of the snapshot that was asked for, and nothing is left at the
\* backup path.
C22_RestoreDeliversSnapshot ==
    (rpc = "done" /\ rout = "return") =>
        /\ dest = snap
        /\ ~backup.exists

(***************************************************************************)
(* C25.  The lines of the report about path f, and the class they give it. *)
(***************************************************************************)
ReportedAs(kind, f) == \E i \in 1..Len(report) : report[i] = <<kind, f>>
LinesAbout(f) == { i \in 1..Len(report) : report[i][2] = f }

\* C25: when _compare_dirs has run, every path of the union of the two
\* filtered file sets has at most one line in the report, and that line is
\* Added exactly for a path of the local directory only, Removed exactly for
\* a path of the snapshot only, and Modified exactly for a path of both
\* whose two contents differ; a path of both with equal contents has no
\* line, and no path outside the union has one.  (A path of both of which a
\* file cannot be read has an error line, which this leaves aside.)
C25_Classification ==
    compared =>
        LET files1 == get_files(snapshot_skill_path, dir1)
            files2 == get_files(skill_path, dir2)
        IN /\ \A i \in 1..Len(report) : report[i][2] \in files1 \cup files2
           /\ \A f \in files1 \cup files2 :
                /\ Cardinality(LinesAbout(f)) <= 1
                /\ ReportedAs("Added", f) <=> f \notin files1
                /\ ReportedAs("Removed", f) <=> f \notin files2
                /\ (f \in files1 \cap files2 /\ Unreadable \notin {dir1[f], dir2[f]})
                      => /\ ReportedAs("Modified", f) <=> dir1[f] # dir2[f]
                         /\ dir1[f] = dir2[f] => LinesAbout(f) = {}

(***************************************************************************)
(* C26.  The order of the report.                                          *)
(***************************************************************************)
\* p is before q when, at the first position where they differ, p has ended
\* or has the smaller name.
ComponentBefore(p, q) ==
    \E k \in 1..Len(q) :
        /\ k <= Len(p) + 1
        /\ SubSeq(p, 1, k - 1) = SubSeq(q, 1, k - 1)
        /\ k = Len(p) + 1 \/ (p[k] # q[k] /\ StrLess(p[k], q[k]))

C23_DiffAfterSaveIsEmpty ==
    (compared /\ dir1 = copytree(dir2)) =>
        \A i \in 1..Len(report) :
            report[i][1] \notin {"Added", "Removed", "Modified"}


(***************************************************************************)
(* C24.  The version diff takes by default.                                *)
(***************************************************************************)
WellFormed(skill_name) ==
    { t \in ListTags(skill_name, tags) : PatternMatch(skill_name, t) # <<>> }

\* C24: when diff has chosen a version of a skill that has a tag the
\* allocator counts, the chosen tag is one the allocator counts and its
\* number is the maximum the allocator computes.
C24_DefaultIsAllocatorMax ==
    (latest # NoLatest /\ WellFormed(latest.skill) # {}) =>
        /\ latest.tag \in WellFormed(latest.skill)
        /\ int(PatternMatch(latest.skill, latest.tag))
              = max_ver(latest.skill, tags)


(***************************************************************************)
(* C27.  The change detector is read-only.                                 *)
(***************************************************************************)
\* C27: a step in which _has_changes_fast has given an answer leaves the
\* cache of every skill, the live trees, the staged copies, the committed
\* trees, the tags here and on the remote, and the lock record with its
\* clock as they were.
C27_HasChangesReadOnly ==
    [][answer' # answer =>
          UNCHANGED <<cache, live, index, head, tags, remote, lock, clock>>]_vars

\* _has_changes_fast has compared the hashes of a skill that has a snapshot
\* and a cache, and has found no change, while a save was under way.
C27_Witness ==
    /\ answer = "unchanged"
    /\ midsave # NoSave
    /\ \E k \in Skills : index[k] # 0 /\ cache[k].kind = "ok"


(***************************************************************************)
(* C28.  A save that fails before it has done anything.                    *)
(***************************************************************************)
\* The save command that has just ended, and how (a save that backup_all
\* called is left aside here).
SaveFails(why) ==
    /\ ~batch.active
    /\ last'.seq # last.seq
    /\ last'.op = "save"
    /\ last'.why = why

\* C28: a save called while a lock record that is not stale exists raises
\* (the 'in progress' error) and leaves that record as it is; a save of a
\* skill whose directory does not exist, or on a repository that is not
\* initialized, raises too, and no lock record is left; in the three cases
\* the staged copies, the committed trees, the tags here and on the remote
\* and the caches are as before.
C28_SaveFailsFast ==
    [][/\ \A k \in CmdNames :
            (/\ last'.seq # last.seq /\ last'.op = "save" /\ last'.skill = k
             /\ ~batch.active /\ ~IsSelf(k))
            => /\ (LockExists /\ ~IsStale(lock_age)) => last'.why = "locked"
               /\ (~LockExists /\ live[Resolve(k)] = NoTree)
                     => last'.why = "not_found"
               /\ (~LockExists /\ live[Resolve(k)] # NoTree /\ ~git_dir)
                     => last'.why = "not_initialized"
       /\ SaveFails("locked") => last'.out = "raise" /\ lock' = lock /\ LockExists
       /\ (SaveFails("not_found") \/ SaveFails("not_initialized"))
             => last'.out = "raise" /\ lock' = NoLock
       /\ (SaveFails("locked") \/ SaveFails("not_found") \/ SaveFails("not_initialized"))
             => UNCHANGED <<index, head, tags, remote, cache>>]_vars

\* A save of a skill whose directory is gone has failed, in a repository
\* with a snapshot, a tag and a cache of that skill.
C28_Witness ==
    /\ last.op = "save"
    /\ last.why = "not_found"
    /\ index[Resolve(last.skill)] # 0
    /\ cache[last.skill].kind = "ok"
    /\ ListTags(last.skill, tags) # {}


(***************************************************************************)
(* C29.  The decision of the change detector.                              *)
(***************************************************************************)
\* The live files the detector sees, and the cached entry a file is taken
\* to be unchanged by: same mtime and same size.
LivePaths == { f \in _get_skill_files(skill_files) : skill_files[f].stat_ok }
SameStat(f) ==
    /\ cache_file.files[f].mtime = skill_files[f].mtime
    /\ cache_file.files[f].size = skill_files[f].size

\* C29: with a staged snapshot and a cache, the detector answers "changed"
\* exactly when the live files whose stat succeeds are not the files of the
\* cache, or some file differs from its cached entry in mtime or size and
\* its hash, computed from the file, is not the cached hash.
C29_DecisionRule ==
    (answer # "none" /\ snapshot_exists /\ cache_file.has_files) =>
        (answer = "changed" <=>
            \/ LivePaths # DOMAIN cache_file.files
            \/ \E f \in LivePaths \cap DOMAIN cache_file.files :
                  ~SameStat(f) /\ skill_files[f].hash # cache_file.files[f].hash)

\* The detector has answered "unchanged" for a skill with a file whose
\* content is not the cached one while its mtime and size are, and with a
\* file whose stat fails and that the cache does not have.
C29_Witness ==
    /\ answer = "unchanged"
    /\ snapshot_exists /\ cache_file.has_files
    /\ PathDotM \in DOMAIN skill_files \cap DOMAIN cache_file.files
    /\ SameStat(PathDotM)
    /\ skill_files[PathDotM].hash # cache_file.files[PathDotM].hash
    /\ PathDirX \in DOMAIN skill_files
    /\ ~skill_files[PathDirX].stat_ok


(***************************************************************************)
(* C30.  The cache after a save.                                           *)
(***************************************************************************)
\* The cache record computed from the live tree alone.
FreshCache(k) == [kind |-> "ok", hash |-> live[k].c, s |-> live[k].s]

\* C30 as stated: after every save that returns, the fast-check no-op
\* included, the cache of the tree is the record computed afresh.
C30_RefreshOnEverySave ==
    [][\A k \in Skills :
         (\/ SaveEnds(k, "created")
          \/ SaveEnds(k, "staged_identical")
          \/ SaveEnds(k, "fast_unchanged"))
         => cache'[k] = FreshCache(k)]_vars

\* C30: after a save that created a snapshot or found its staged copy
\* identical to the commit, the cache of the tree is the record computed
\* afresh from the live tree, whatever it was; a save that the fast check
\* ends leaves the cache as it was.
C30_RefreshUnlessFastNoOp ==
    [][\A k \in Skills :
         /\ (SaveEnds(k, "created") \/ SaveEnds(k, "staged_identical"))
               => cache'[k] = FreshCache(k)
         /\ SaveEnds(k, "fast_unchanged") => cache' = cache]_vars

\* A save has ended at the fast check and the cache still has the stamp of
\* the tree as it was before it was touched.
C30_Witness ==
    \E k \in Skills :
       /\ last.op = "save" /\ last.skill = k /\ last.why = "fast_unchanged"
       /\ last.edits = nedits
       /\ cache[k].kind = "ok"
       /\ cache[k] # FreshCache(k)

(***************************************************************************)
(* Release and ownership.                                                  *)
(***************************************************************************)
\* C37: in every interleaving, a release() that removes the lock file
\* removes a record that the releasing invocation itself wrote, never the
\* record of another invocation.
C37_ReleaseOwnRecord ==
    [][\A p \in Procs :
         (Stepped(p) /\ pc[p] = "rel_unlink" /\ LockRemoved)
            => lock.holder = p]_vars

(***************************************************************************)
(* What a commit holds.                                                    *)
(***************************************************************************)
\* C39: a save of tree B creates a commit and a tag only if the content it
\* staged for B differs from B's content in the last commit, and the commit
\* changes the committed content of B alone, whatever an earlier save of
\* another tree left staged.
C39_CommitIsolation ==
    [][\A B \in Skills :
         SaveEnds(B, "created") =>
            /\ index'[B] # head[B]
            /\ \A A \in Skills \ {B} : head'[A] = head[A]]_vars

(***************************************************************************)
(* Restore of a version that does not exist.                               *)
(***************************************************************************)
\* C34: while and after a restore of a version whose tag does not exist,
\* the destination holds the tree it held before, no backup was made, and
\* when the restore has ended it has ended with the failure exit.
C34_MissingVersion ==
    ~tagExists =>
        /\ dest = orig
        /\ ~backup_path /\ backup = NoDir
        /\ rpc = "done" => rout = "exit"

(***************************************************************************)
(* The branch restore leaves behind.                                       *)
(***************************************************************************)
\* C35: when _restore_impl has ended, on whatever path, the snapshot
\* repository has the default branch checked out (the lock is released
\* after that), so that the next save stages and commits on that branch.
C35_BackOnDefaultBranch ==
    rpc = "done" => branch = "main"

(***************************************************************************)
(* Delete.                                                                 *)
(***************************************************************************)
\* The tag that delete(T, v) names: v itself when v is written "T/...",
\* else "T/" followed by v.
C36_Tag(T, v) ==
    IF Len(v) > Len(T) /\ SubSeq(v, 1, Len(T)) = T /\ v[Len(T) + 1] = "/"
    THEN v
    ELSE T \o <<"/">> \o v

\* v has a "/" and is not written "T/...".
C36_Foreign(T, v) ==
    /\ C36_Tag(T, v) # v
    /\ \E i \in 1..Len(v) : v[i] = "/"

C31_CacheWrittenBySaveOnly ==
    [][\A k \in Skills :
         (cache'[k] # cache[k] /\ cache'[k].kind = "ok") =>
            \/ SaveEnds(k, "created")
            \/ SaveEnds(k, "staged_identical")]_vars

(***************************************************************************)
(* What a command on one tree leaves alone.                                 *)
(***************************************************************************)
\* C38: a save, restore, delete, rebuild-cache or clear-cache that is given
\* the name of one tree leaves, for every other tree B, the tags of B that
\* the backend has (in the local repository or at the remote), the cache
\* record of B, the staged copy of B and the live tree of B as they were.
C38_CrossTreeFrame ==
    [][(CommandEnds /\ last'.skill # <<>>) =>
         \A B \in Skills \ {Resolve(last'.skill)} :
            /\ ListTags(B, tags' \cup remote') = ListTags(B, tags \cup remote)
            /\ cache'[B] = cache[B]
            /\ index'[B] = index[B]
            /\ live'[B] = live[B]]_vars

(***************************************************************************)
(* The ignore rule.                                                        *)
(***************************************************************************)
\* C32: a file of the tree is left out of the fingerprint exactly when a
\* name of its path below the tree root (a directory or the file itself) is
\* an ignored name or its suffix is .pyc or .pyo; the name of the tree root
\* and the names of the directories above it make no difference.
C32_IgnoreScope ==
    enumerated.done =>
        \A path \in DOMAIN dir2 :
            (path \notin enumerated.hashed) <=>
                \/ \E i \in 1..Len(path) : path[i] \in ignore_names
                \/ suffix(path) \in { <<".", "p", "y", "c">>, <<".", "p", "y", "o">> }

\* C33: the files that are fingerprinted, the files that save copies into
\* the staged copy and the files that diff lists for the live tree are the
\* same set.
C33_OneIgnoreRule ==
    enumerated.done =>
        /\ enumerated.hashed = enumerated.staged
        /\ enumerated.staged = enumerated.diffed

(***************************************************************************)
(* diff and the lock.                                                      *)
(***************************************************************************)
\* C40: no step of diff reads, writes or removes the lock record, and diff
\* goes on while another invocation holds it; no step of diff changes the
\* live tree, the cache, the staged copy or what the snapshot repository
\* has checked out; and when diff has ended, on whatever path, its
\* temporary directory is gone.
C40_DiffReadOnly ==
    /\ [][dpc' # dpc =>
            /\ UNCHANGED <<lock, live, dir2, cache, index, head, branch>>]_vars
    /\ [](dpc = "done" => ~temp_dir)

\* A diff has compared and reported differences while another invocation
\* held the lock.
C40_Witness ==
    /\ dpc = "done" /\ compared /\ ~temp_dir
    /\ last.op = "diff" /\ last.why = "compared"
    /\ report # <<>>
    /\ lock = LockRecord("p1", 0)

====
